---- MODULE Spec2Model ----
(***************************************************************************)
(* RoadSafetyGPT: the retrieval-augmented generation engine                *)
(* (src/rag_engine.py), the offline index build (src/data_processor.py),   *)
(* the image handler (src/multimodal_handler.py) and the language-resource *)
(* setup of src/eda_validator.py.                                          *)
(*                                                                         *)
(* Text is a sequence of symbols.  A symbol is one character (" ", "\n",   *)
(* ",", "x") or one whole word or phrase that the code only ever treats as *)
(* a unit ("zebra", "the", the refusal phrase, "However,").                *)
(***************************************************************************)
EXTENDS Integers, Sequences, FiniteSets, TLC

(***************************************************************************)
(* Bounds of the model                                                     *)
(***************************************************************************)
MaxRespLen == 6        \* longest generation output, in symbols
MaxStore == 3          \* most chunks in the persisted index
MaxBuilt == 4          \* most chunks the index build leaves in the index
MaxDocs == 4           \* most documents of a training corpus
MaxFiles == 3          \* most files in data/raw/
MaxPageLen == 4        \* longest page handed to the splitter, in symbols
MaxTextLen == 3        \* longest text handed to preprocess_text, in symbols
MaxScore == 2          \* similarity scores range over 0..MaxScore
MaxPlan == 4           \* most tasks the handlers leave in the action plan
MaxRows == 3           \* most rows the plan editor is given

(***************************************************************************)
(* Program constants                                                       *)
(***************************************************************************)
RETRIEVER_K == 3       \* search_kwargs={"k": 3}
TOKEN_LIMIT == 50      \* preprocess_text(content)[:50]
TOPN == 5              \* show_topic(dominant_topic, topn=5)
NUM_TOPICS == 3        \* LdaModel(num_topics=NUM_TOPICS)
CHUNK_SIZE == 1000     \* CHUNK_SIZE
CHUNK_OVERLAP == 200   \* CHUNK_OVERLAP

\* Python objects are records; None is the record below
None == [py |-> "None"]

REFUSAL == "The provided context does not contain"
HOWEVER == "However,"
NOT_INITIALIZED ==
    <<"RAG Engine is not initialized. Please ensure the vector store is built first.">>
ERROR_MARKER == "An error occurred during query execution: "

\* the Chroma object over data/vectorstore/ and the retriever made from it
ChromaStore == [py |-> "Chroma", persist_directory |-> "data/vectorstore/"]
Retriever == [py |-> "VectorStoreRetriever", k |-> RETRIEVER_K]

\* EMBEDDING_MODEL of src/data_processor.py, line 37
DATA_PROCESSOR_EMBEDDING_MODEL == <<"text-embedding-004">>

\* the build passing EMBEDDING_MODEL as it is
BuildEmbeddingModel_Bare == DATA_PROCESSOR_EMBEDDING_MODEL

\* f"models/{EMBEDDING_MODEL}", src/data_processor.py line 149
BuildEmbeddingModel == <<"models/">> \o DATA_PROCESSOR_EMBEDDING_MODEL

\* EMBEDDING_MODEL of src/rag_engine.py, line 38, passed at line 80
EMBEDDING_MODEL == <<"models/", "text-embedding-004">>

\* data/vectorstore/: whether it can be opened, the chunks of the collection
\* in insertion order, and the model whose vectors the collection holds
MissingStore == [state |-> "missing", chunks |-> <<>>, model |-> <<>>]
CorruptStore == [state |-> "corrupt", chunks |-> <<>>, model |-> <<>>]
StoreOf(chunks) ==
    [state |-> "ok", chunks |-> chunks,
     model |-> IF chunks = <<>> THEN <<>> ELSE BuildEmbeddingModel]

\* bool(obj): None is false; a Chroma object with __len__ is false when empty
Truthy(obj, chunks, has_len) ==
    IF obj = None THEN FALSE
    ELSE IF obj = ChromaStore /\ has_len THEN Len(chunks) > 0
    ELSE TRUE

(***************************************************************************)
(* Python str operations used by the code                                  *)
(***************************************************************************)
Whitespace == {" ", "\n"}

RECURSIVE LStrip(_)
LStrip(s) ==
    IF s # <<>> /\ Head(s) \in Whitespace THEN LStrip(Tail(s)) ELSE s

RECURSIVE RStrip(_)
RStrip(s) ==
    IF s # <<>> /\ s[Len(s)] \in Whitespace
    THEN RStrip(SubSeq(s, 1, Len(s) - 1))
    ELSE s

\* str.strip()
Strip(s) == RStrip(LStrip(s))

\* str.startswith(p) for a one-symbol prefix p
StartsWith(s, p) == s # <<>> /\ s[1] = p

\* str.split(sep): the pieces between occurrences of sep, empty pieces kept
RECURSIVE SplitOn(_, _)
SplitOn(s, sep) ==
    IF \A i \in 1..Len(s) : s[i] # sep
    THEN <<s>>
    ELSE LET i == CHOOSE k \in 1..Len(s) :
                      s[k] = sep /\ \A m \in 1..(k - 1) : s[m] # sep
         IN  <<SubSeq(s, 1, i - 1)>> \o SplitOn(SubSeq(s, i + 1, Len(s)), sep)

\* sep.join(parts), sep a text
RECURSIVE Join(_, _)
Join(parts, sep) ==
    IF parts = <<>> THEN <<>>
    ELSE IF Len(parts) = 1 THEN parts[1]
    ELSE parts[1] \o sep \o Join(Tail(parts), sep)

\* seq[n:] in Python, n >= 0
DropFirst(s, n) == IF n >= Len(s) THEN <<>> ELSE SubSeq(s, n + 1, Len(s))

\* seq[:n] in Python, n >= 0
TakeFirst(s, n) == IF n >= Len(s) THEN s ELSE SubSeq(s, 1, n)

(***************************************************************************)
(* RAGEngine.query, lines 195-200: post-processing of the model's output   *)
(***************************************************************************)
\* PostProcess dropping the refusal line only
PostProcess_KeepHowever(content) ==
    LET answer == Strip(content)
        lines  == SplitOn(answer, "\n")
    IN  IF StartsWith(answer, REFUSAL)
           /\ Len(lines) > 1
           /\ StartsWith(Strip(lines[2]), HOWEVER)
        THEN Strip(Join(DropFirst(lines, 1), <<"\n">>))
        ELSE answer

\* PostProcess dropping two lines after any refusal line
PostProcess_AnyRefusal(content) ==
    LET answer == Strip(content)
        lines  == SplitOn(answer, "\n")
    IN  IF StartsWith(answer, REFUSAL) /\ Len(lines) > 1
        THEN Strip(Join(DropFirst(lines, 2), <<"\n">>))
        ELSE answer

PostProcess(content) ==
    LET answer == Strip(content)
        lines  == SplitOn(answer, "\n")
    IN  IF StartsWith(answer, REFUSAL)
           /\ Len(lines) > 1
           /\ StartsWith(Strip(lines[2]), HOWEVER)
        THEN Strip(Join(DropFirst(lines, 2), <<"\n">>))
        ELSE answer

(***************************************************************************)
(* preprocess_text (src/data_processor.py).  Chunk text is written over    *)
(* the symbols below: whole words, the one-letter word "x", the            *)
(* punctuation character "," and the whitespace characters.                *)
(***************************************************************************)
Punctuation == {","}
StopWords == {<<"the">>}

\* lines 74-81: nltk.data.find(resource), nltk.download on LookupError
PreprocessResources == {"tokenizers/punkt_tab", "corpora/stopwords"}
ensure_resources(present) == present \cup PreprocessResources

\* str.lower()
Lower(text) ==
    [i \in 1..Len(text) |->
        IF text[i] = "Zebra" THEN "zebra"
        ELSE IF text[i] = "Paint" THEN "paint"
        ELSE IF text[i] = "The" THEN "the"
        ELSE IF text[i] = "Mist" THEN "mist"
        ELSE IF text[i] = "Fog" THEN "fog"
        ELSE IF text[i] = "Clouds" THEN "clouds"
        ELSE IF text[i] = "Clear" THEN "clear"
        ELSE IF text[i] = "Accident" THEN "accident"
        ELSE text[i]]

\* re.sub(r'[^\w\s]', '', text)
IsWordOrSpace(c) == c \notin Punctuation
RemovePunctuation(text) == SelectSeq(text, IsWordOrSpace)

\* word_tokenize on text without punctuation: the maximal runs of word
\* symbols, in order
WordStarts(text) ==
    {i \in 1..Len(text) :
        text[i] \notin Whitespace /\ (i = 1 \/ text[i - 1] \in Whitespace)}

WordEnd(text, i) ==
    CHOOSE j \in i..Len(text) :
        /\ \A m \in i..j : text[m] \notin Whitespace
        /\ j = Len(text) \/ text[j + 1] \in Whitespace

word_tokenize(text) ==
    LET starts == WordStarts(text)
        nth(k) == CHOOSE i \in starts : Cardinality({j \in starts : j <= i}) = k
    IN  [k \in 1..Cardinality(starts) |-> SubSeq(text, nth(k), WordEnd(text, nth(k)))]

\* len(word), in characters
RECURSIVE WordLen(_)
WordLen(word) ==
    IF word = <<>> THEN 0
    ELSE (IF Head(word) = "x" THEN 1 ELSE 3) + WordLen(Tail(word))

\* lines 90-91: word not in stop_words and len(word) > 1
IsKept(word) == word \notin StopWords /\ WordLen(word) > 1

\* preprocess_text without line 84
preprocess_text_NoLower(text) ==
    SelectSeq(word_tokenize(RemovePunctuation(text)), IsKept)

preprocess_text(text) ==
    SelectSeq(word_tokenize(RemovePunctuation(Lower(text))), IsKept)

(***************************************************************************)
(* The pickled topic model as the engine uses it: its dictionary           *)
(* (id2word, token ids are positions minus one) and, per topic, its words  *)
(* in descending probability.                                              *)
(***************************************************************************)
Topics == 0..(NUM_TOPICS - 1)

Vocabulary ==
    << <<"zebra">>, <<"paint">>, <<"kerb">>, <<"ramp">>, <<"irc">>, <<"speed">> >>

TrainedLda ==
    [id2word |-> Vocabulary,
     topics  |-> << << <<"zebra">>, <<"paint">>, <<"kerb">>, <<"ramp">>, <<"irc">>, <<"speed">> >>,
                    << <<"speed">>, <<"irc">>, <<"ramp">>, <<"kerb">>, <<"paint">>, <<"zebra">> >>,
                    << <<"kerb">>, <<"zebra">> >> >>]

\* Dictionary.doc2bow: (id, count) of the known tokens, ascending id
CountOf(tokens, word) == Cardinality({i \in 1..Len(tokens) : tokens[i] = word})

RECURSIVE BowFrom(_, _, _)
BowFrom(id2word, tokens, i) ==
    IF i > Len(id2word) THEN <<>>
    ELSE (IF CountOf(tokens, id2word[i]) > 0
          THEN << <<i - 1, CountOf(tokens, id2word[i])>> >>
          ELSE <<>>) \o BowFrom(id2word, tokens, i + 1)

doc2bow(id2word, tokens) == BowFrom(id2word, tokens, 1)

\* LdaModel.__getitem__: the posterior as (topic, probability) pairs in
\* ascending topic order, topics below minimum_probability left out.  A
\* posterior is a function Topics -> 0..ProbScale summing to ProbScale.
RECURSIVE TopicPairs(_, _)
TopicPairs(posterior, t) ==
    IF t >= NUM_TOPICS THEN <<>>
    ELSE (IF posterior[t] > 0 THEN << <<t, posterior[t]>> >> ELSE <<>>)
         \o TopicPairs(posterior, t + 1)

get_document_topics(posterior) == TopicPairs(posterior, 0)

\* LdaModel.show_topic(topic, topn): the words only
show_topic(lda, topic, topn) == TakeFirst(lda.topics[topic + 1], topn)

\* max(seq, key=lambda x: x[1]): the first element whose key is the largest
RECURSIVE MaxFrom(_, _, _)
MaxFrom(seq, i, best) ==
    IF i > Len(seq) THEN best
    ELSE MaxFrom(seq, i + 1, IF seq[i][2] > best[2] THEN seq[i] ELSE best)

\* MaxByProbability keeping the last of equal maxima
RECURSIVE MaxFromLast(_, _, _)
MaxFromLast(seq, i, best) ==
    IF i > Len(seq) THEN best
    ELSE MaxFromLast(seq, i + 1, IF seq[i][2] >= best[2] THEN seq[i] ELSE best)

MaxByProbability_Last(seq) == MaxFromLast(seq, 2, seq[1])

MaxByProbability(seq) == MaxFrom(seq, 2, seq[1])

Decimal(n) == IF n = 1 THEN "1" ELSE IF n = 2 THEN "2" ELSE IF n = 3 THEN "3" ELSE "4"

\* chunk texts (Document.page_content)
LongText ==
    [i \in 1..(2 * TOKEN_LIMIT + 1) |->
        IF i = 2 * TOKEN_LIMIT + 1 THEN "paint" ELSE IF i % 2 = 1 THEN "zebra" ELSE " "]

ZebraText == <<"Zebra", " ", "the", " ", "paint", ",">>
NoiseText == <<"x", "\n", "\n", "the">>

ChunkTexts == {ZebraText, NoiseText, LongText}

(***************************************************************************)
(* RAGEngine._format_docs and RAGEngine._format_docs_with_topics           *)
(***************************************************************************)
BlankLine == <<"\n", "\n">>

_format_docs(docs) == Join(docs, BlankLine)

\* what line 147 hands to the topic model for one chunk
ChunkBow(lda, content) ==
    doc2bow(lda.id2word, TakeFirst(preprocess_text(content), TOKEN_LIMIT))

\* ChunkBow of the chunk texts of the model, evaluated once
BowOfChunk == [content \in ChunkTexts |-> ChunkBow(TrainedLda, content)]

\* FormatOne marking a chunk also when no topic model is loaded
FormatOne_Marked(lda, content, posterior) ==
    <<"[Topic Summary: ", "unavailable", "]", "\n">> \o content

\* lines 139-153 for one chunk; posterior is the topic model's answer
FormatOne(lda, content, posterior) ==
    IF Truthy(lda, <<>>, FALSE)
    THEN LET topic_dist == get_document_topics(posterior)
         IN  IF topic_dist # <<>>
             THEN LET dominant_topic == MaxByProbability(topic_dist)[1]
                      topic_words == show_topic(lda, dominant_topic, TOPN)
                      topic_summary == <<"Topic ", Decimal(dominant_topic + 1), ": ">>
                                       \o Join(topic_words, <<", ">>)
                  IN  <<"[Topic Summary: ">> \o topic_summary \o <<"]", "\n">> \o content
             ELSE content
    ELSE content

\* _format_docs_with_topics joining with a single newline
_format_docs_with_topics_Newline(lda, docs, posteriors) ==
    Join([i \in 1..Len(docs) |-> FormatOne(lda, docs[i], posteriors[i])], <<"\n">>)

_format_docs_with_topics(lda, docs, posteriors) ==
    Join([i \in 1..Len(docs) |-> FormatOne(lda, docs[i], posteriors[i])], BlankLine)

(***************************************************************************)
(* Inputs                                                                  *)
(***************************************************************************)
\* the sequences over S of length lo..hi
SeqsOf(S, lo, hi) == UNION {[1..n -> S] : n \in lo..hi}

\* questions
EmptyQuestion == <<>>
ZebraQuestion == <<"What are zebra crossing standards?">>
Questions == {EmptyQuestion, ZebraQuestion}

\* generation outputs (response.content)
ResponseSymbols == {REFUSAL, HOWEVER, "IRC:67", " ", "\n"}
AllResponses == SeqsOf(ResponseSymbols, 0, MaxRespLen)
SampleResponses ==
    { <<"IRC:67">>,
      <<" ", "IRC:67", "\n">>,
      <<REFUSAL, "\n", HOWEVER, "\n", "IRC:67">>,
      <<REFUSAL, "\n", "\n", HOWEVER>> }

\* the topic model's posteriors: Topics -> 0..ProbScale, summing to ProbScale
ProbScale == 2
AllPosteriors ==
    {p \in [Topics -> 0..ProbScale] : p[0] + p[1] + p[2] = ProbScale}
SamplePosteriors ==
    {p \in AllPosteriors : p[1] = ProbScale \/ p[2] = ProbScale}

\* similarity scores the index gives the stored chunks for a query
SampleScores == {0, 1}

\* values of the GEMINI_API_KEY environment variable
Unset == "<unset>"
EnvKeys == {Unset, "", "secret-key"}

(***************************************************************************)
(* State                                                                   *)
(***************************************************************************)
VARIABLES
    env_key,      \* os.environ["GEMINI_API_KEY"], or Unset
    chroma_len,   \* whether the installed Chroma class defines __len__
    disk_store,   \* data/vectorstore/: [state: "missing" | "corrupt" | "ok", chunks]
    disk_lda,     \* whether data/vectorstore/lda_model.pkl can be unpickled
    engine,       \* the caller's RAGEngine object, or Unbound
    handler,      \* the caller's MultimodalHandler object, or Unbound
    nltk_data,    \* the NLTK resources installed on this machine
    sys_path,     \* the directories of sys.path besides the interpreter's own
    session,      \* st.session_state of the dashboard: action_plan, current_weather
    call,         \* the last operation and, for a constructor or the batch job, how it ended
    qr            \* how the last operation ended if it was RAGEngine.query

vars ==
    <<env_key, chroma_len, disk_store, disk_lda, engine, handler, nltk_data, sys_path,
      session, call, qr>>

Unbound == [py |-> "unbound"]

\* GEMINI_API_KEY as str(os.environ.get("GEMINI_API_KEY"))
GEMINI_API_KEY_Str == IF env_key = Unset THEN "None" ELSE env_key

\* os.environ.get("GEMINI_API_KEY", "") at import of rag_engine / multimodal_handler
GEMINI_API_KEY == IF env_key = Unset THEN "" ELSE env_key

\* what the batch job worked on: the files listed, the page records loaded, the filtered
\* dictionary, the chunks handed to the index build, the chunks the index
\* held before, the chunk whose embedding call raised (0 for none) and the
\* message of the exception that ended the job; for a call of the text
\* functions, the resources it needs that were absent, those it downloaded,
\* whether the download service worked, and the tokens returned; writes is
\* the artifacts of data/vectorstore/ the job wrote, in order; for a call of
\* analyze_image or of a dashboard handler, response is what the remote
\* model answered and result is the value returned; for a dashboard handler
\* args is its argument and before is the action plan it found
NoJob ==
    [files |-> <<>>, documents |-> <<>>, dictionary |-> {}, chunks |-> <<>>,
     before |-> <<>>, fail_at |-> 0, error |-> "none", writes |-> <<>>,
     absent |-> {}, downloads |-> {}, download_ok |-> TRUE, tokens |-> <<>>,
     args |-> None, response |-> None, result |-> None]

NoCall ==
    [op |-> "none", raised |-> "none", printed |-> "none", touched |-> {}, job |-> NoJob]

NoQuery ==
    [returned |-> FALSE, raised |-> "none", error |-> "none",
     question |-> <<>>, invoked |-> <<>>, scores |-> <<>>,
     docs |-> <<>>, bows |-> <<>>, posteriors |-> <<>>, context |-> <<>>,
     prompt |-> <<>>, content |-> <<>>, answer |-> <<>>, sources |-> <<>>]

\* the directory that line 144 of src/rag_engine.py appends to sys.path
PROJECT_ROOT == "os.path.dirname(os.path.dirname(os.path.abspath(__file__)))"

(***************************************************************************)
(* The dashboard's session state (src/app.py, lines 242-267)               *)
(***************************************************************************)
Task(id, source, issue, intervention, risk, status) ==
    [ID |-> id, Source |-> source, Issue |-> issue, Intervention |-> intervention,
     Risk |-> risk, Status |-> status]

\* lines 242-261
InitialActionPlan ==
    << Task(<<"MORT-001">>, "Map", <<"Signal Jumping at Bangalore Ring Road">>,
            <<"Full Signal Optimization & Rumble Strips">>, "Critical", "To Do"),
       Task(<<"IRC-002">>, "RAG", <<"Faded markings on NH-19 as per audit report">>,
            <<"Thermoplastic re-painting of shoulder lines (IRC:67)">>, "High",
            "In Progress") >>

\* lines 264-265
InitialSession ==
    [action_plan |-> InitialActionPlan, current_weather |-> <<"Clear">>]

(***************************************************************************)
(* RAGEngine.__init__ (src/rag_engine.py, lines 63-129)                    *)
(***************************************************************************)
\* lines 83-97: the provided store if truthy, else Chroma(persist_directory=...)
\* which opens the directory (creating an empty collection when there is
\* none) or raises
LoadedStore(provided, load_raises) ==
    IF Truthy(provided, disk_store.chunks, chroma_len) THEN provided
    ELSE IF disk_store.state = "corrupt" \/ load_raises THEN None
    ELSE ChromaStore

\* lines 101-105
RetrieverFor(vector_store, chunks) ==
    IF Truthy(vector_store, chunks, chroma_len) THEN Retriever ELSE None

\* lines 108-115
LoadedLda(load_raises) ==
    IF disk_lda /\ ~load_raises THEN TrainedLda ELSE None

\* lines 122-127: None | self._format_docs_with_topics raises TypeError
ChainRaises(retriever) == retriever = None

ConstructRAGEngine(provided, store_raises, lda_raises) ==
    /\ call = NoCall
    /\ provided = ChromaStore => disk_store.state = "ok"
    /\ IF GEMINI_API_KEY = ""
       THEN /\ call' = [op |-> "RAGEngine", raised |-> "ValueError",
                        printed |-> "none", touched |-> {}, job |-> NoJob]
            /\ UNCHANGED <<engine, disk_store>>
       ELSE LET vector_store == LoadedStore(provided, store_raises)
                opened == vector_store = ChromaStore /\ vector_store # provided
                after == IF opened /\ disk_store.state = "missing"
                         THEN StoreOf(<<>>) ELSE disk_store
                retriever == RetrieverFor(vector_store, after.chunks)
                lda_model == LoadedLda(lda_raises)
                touched == {"llm", "embeddings"}
                           \cup (IF vector_store # provided THEN {"Chroma"} ELSE {})
                           \cup (IF retriever # None THEN {"retriever"} ELSE {})
                           \cup {"lda_model.pkl"}
            IN  /\ disk_store' = after
                /\ IF ChainRaises(retriever)
                   THEN /\ call' = [op |-> "RAGEngine", raised |-> "TypeError",
                                    printed |-> "none", touched |-> touched, job |-> NoJob]
                        /\ UNCHANGED engine
                   ELSE /\ call' = [op |-> "RAGEngine", raised |-> "none",
                                    printed |-> "RAG Engine successfully initialized.",
                                    touched |-> touched, job |-> NoJob]
                        /\ engine' = [py |-> "RAGEngine",
                                      embeddings |-> EMBEDDING_MODEL,
                                      vector_store |-> vector_store,
                                      retriever |-> retriever,
                                      lda_model |-> lda_model]
    /\ qr' = NoQuery
    /\ UNCHANGED <<env_key, chroma_len, disk_lda, handler, nltk_data, sys_path, session>>

(***************************************************************************)
(* MultimodalHandler.__init__ (src/multimodal_handler.py, lines 25-39)     *)
(***************************************************************************)
ConstructMultimodalHandler(list_raises) ==
    /\ call = NoCall
    /\ IF GEMINI_API_KEY = ""
       THEN /\ call' = [op |-> "MultimodalHandler", raised |-> "ValueError",
                        printed |-> "none", touched |-> {}, job |-> NoJob]
            /\ UNCHANGED handler
       ELSE /\ call' = [op |-> "MultimodalHandler", raised |-> "none",
                        printed |-> IF list_raises THEN "Error listing models"
                                    ELSE "Available models",
                        touched |-> {"genai.configure", "genai.list_models",
                                     "genai.GenerativeModel"}, job |-> NoJob]
            /\ handler' = [py |-> "MultimodalHandler", model |-> "gemini-2.0-flash"]
    /\ qr' = NoQuery
    /\ UNCHANGED <<env_key, chroma_len, disk_store, disk_lda, engine, nltk_data, sys_path, session>>

(***************************************************************************)
(* MultimodalHandler.analyze_image (src/multimodal_handler.py, lines 41-67)*)
(***************************************************************************)
max_size == 1024       \* line 59

Str(text) == [py |-> "str", text |-> text]

\* the calls of lines 54-64 that the image makes the method run, in order
AnalyzeSteps(image) ==
    <<"Image.open">>
        \o (IF image.mode # "RGB" THEN <<"convert">> ELSE <<>>)
        \o (IF image.width > max_size \/ image.height > max_size
            THEN <<"thumbnail">> ELSE <<>>)
        \o <<"generate_content", "response.text">>

\* the first of the steps that raises, 0 for none: a file that PIL cannot
\* open fails at Image.open, any other step fails when fail names it
FirstFailure(image, fail) ==
    LET steps == AnalyzeSteps(image)
        failing == {i \in 1..Len(steps) :
                        steps[i] = fail \/ (steps[i] = "Image.open" /\ ~image.openable)}
    IN  IF failing = {} THEN 0
        ELSE CHOOSE i \in failing : \A j \in failing : i <= j

\* analyze_image without its except clause
analyze_image_Unguarded(image, fail, text) ==
    LET steps == AnalyzeSteps(image)
        at == FirstFailure(image, fail)
    IN  [raised |-> IF at = 0 THEN "none" ELSE "Exception",
         printed |-> "none",
         error |-> IF at = 0 THEN "none" ELSE steps[at],
         touched |-> {steps[i] : i \in 1..(IF at = 0 THEN Len(steps) ELSE at)},
         response |-> IF at = 0 \/ steps[at] = "response.text"
                      THEN [py |-> "GenerateContentResponse", text |-> text] ELSE None,
         result |-> IF at = 0 THEN Str(text) ELSE None]

\* lines 52-67
analyze_image(image, fail, text) ==
    LET steps == AnalyzeSteps(image)
        at == FirstFailure(image, fail)
    IN  [raised |-> "none",
         printed |-> IF at = 0 THEN "none" ELSE "Error analyzing image",
         error |-> IF at = 0 THEN "none" ELSE steps[at],
         touched |-> {steps[i] : i \in 1..(IF at = 0 THEN Len(steps) ELSE at)},
         response |-> IF at = 0 \/ steps[at] = "response.text"
                      THEN [py |-> "GenerateContentResponse", text |-> text] ELSE None,
         result |-> IF at = 0 THEN Str(text) ELSE None]

CallAnalyzeImage(image, fail, text) ==
    /\ handler # Unbound
    /\ call = NoCall
    /\ LET r == analyze_image(image, fail, text)
       IN  call' = [op |-> "analyze_image", raised |-> r.raised, printed |-> r.printed,
                    touched |-> r.touched,
                    job |-> [NoJob EXCEPT !.error = r.error, !.response = r.response,
                                          !.result = r.result]]
    /\ qr' = NoQuery
    /\ UNCHANGED <<env_key, chroma_len, disk_store, disk_lda, engine, handler, nltk_data,
                   sys_path, session>>

(***************************************************************************)
(* The index build, src/data_processor.py                                  *)
(***************************************************************************)
\* a file of data/raw/: [pdf, unreadable, pages]
PdfFile(pages) == [pdf |-> TRUE, unreadable |-> FALSE, pages |-> pages]
BadPdf == [pdf |-> TRUE, unreadable |-> TRUE, pages |-> <<>>]
TextFile == [pdf |-> FALSE, unreadable |-> FALSE, pages |-> <<ZebraText>>]

BlankPage == <<" ", "\n">>

RawDirectories ==
    { <<>>,
      <<TextFile>>,
      <<PdfFile(<<ZebraText>>)>>,
      <<BadPdf, PdfFile(<<NoiseText, ZebraText>>)>>,
      <<PdfFile(<<ZebraText, BlankPage>>), BadPdf, PdfFile(<<BlankPage, ZebraText>>)>> }

\* load_documents stopping at the first file that fails to load
RECURSIVE load_documents_StopAtError(_)
load_documents_StopAtError(files) ==
    IF files = <<>> \/ (Head(files).pdf /\ Head(files).unreadable) THEN <<>>
    ELSE (IF Head(files).pdf THEN Head(files).pages ELSE <<>>)
         \o load_documents_StopAtError(Tail(files))

\* load_documents, lines 44-58
RECURSIVE load_documents(_)
load_documents(files) ==
    IF files = <<>> THEN <<>>
    ELSE (IF Head(files).pdf /\ ~Head(files).unreadable THEN Head(files).pages ELSE <<>>)
         \o load_documents(Tail(files))

\* load_documents(RAW_DATA_PATH) called on its own
CallLoad(files) ==
    /\ call = NoCall
    /\ call' = [op |-> "load_documents", raised |-> "none",
                printed |-> "Loading documents from: data/raw/",
                touched |-> {"listdir"},
                job |-> [NoJob EXCEPT !.files = files,
                                      !.documents = load_documents(files)]]
    /\ qr' = NoQuery
    /\ UNCHANGED <<env_key, chroma_len, disk_store, disk_lda, engine, handler, nltk_data, sys_path, session>>

\* RecursiveCharacterTextSplitter(chunk_size=CHUNK_SIZE,
\* chunk_overlap=CHUNK_OVERLAP, length_function=len), lines 62-66, with the
\* class defaults: separators "\n\n", "\n", " ", "", each kept at the start of
\* the piece that follows it, whitespace stripped from every chunk.  A text
\* here may hold words of several hundred letters as one symbol; no unbroken
\* run of letters reaches CHUNK_SIZE, so that no chunk ends inside a symbol.
LETTERS_600 == "<a word of 600 letters>"
LETTERS_400 == "<a word of 400 letters>"

\* len of one symbol, in characters
CharLen(c) ==
    IF c = LETTERS_600 THEN 600
    ELSE IF c = LETTERS_400 THEN 400
    ELSE IF c \in Whitespace THEN 1
    ELSE WordLen(<<c>>)

\* length_function=len
RECURSIVE TextLen(_)
TextLen(text) == IF text = <<>> THEN 0 ELSE CharLen(Head(text)) + TextLen(Tail(text))

SEPARATORS == << <<"\n", "\n">>, <<"\n">>, <<" ">>, <<>> >>

\* re.search(separator, text), the positions where separator starts
Occurrences(text, separator) ==
    {i \in 1..(Len(text) - Len(separator) + 1) :
        SubSeq(text, i, i + Len(separator) - 1) = separator}

\* re.split(f"({separator})", text) with each separator joined to the piece
\* behind it; lead is the separator the next piece starts with
RECURSIVE SplitFrom(_, _, _)
SplitFrom(text, separator, lead) ==
    IF Occurrences(text, separator) = {} THEN <<lead \o text>>
    ELSE LET i == CHOOSE k \in Occurrences(text, separator) :
                      \A m \in Occurrences(text, separator) : k <= m
         IN  <<lead \o SubSeq(text, 1, i - 1)>>
                 \o SplitFrom(SubSeq(text, i + Len(separator), Len(text)),
                              separator, separator)

NotEmpty(piece) == piece # <<>>

\* _split_text_with_regex(text, separator, keep_separator=True); list(text)
\* for the separator ""
_split_text_with_regex(text, separator) ==
    IF separator = <<>> THEN [i \in 1..Len(text) |-> <<text[i]>>]
    ELSE SelectSeq(SplitFrom(text, separator, <<>>), NotEmpty)

\* "".join(pieces)
RECURSIVE Concat(_)
Concat(pieces) == IF pieces = <<>> THEN <<>> ELSE Head(pieces) \o Concat(Tail(pieces))

\* _join_docs: the joined pieces, stripped; no chunk when nothing is left
_join_docs(current_doc) ==
    IF Strip(Concat(current_doc)) = <<>> THEN <<>> ELSE <<Strip(Concat(current_doc))>>

\* the while loop of _merge_splits: pieces leave the front of the running
\* chunk while more than chunk_overlap characters are carried over, or while
\* the next piece still does not fit
RECURSIVE CarryOver(_, _, _)
CarryOver(current_doc, len, chunk_overlap) ==
    LET total == TextLen(Concat(current_doc))
    IN  IF total > chunk_overlap \/ (total + len > CHUNK_SIZE /\ total > 0)
        THEN CarryOver(Tail(current_doc), len, chunk_overlap)
        ELSE current_doc

\* _merge_splits(splits, "") from piece i on, docs and current_doc as built so far
RECURSIVE MergeFrom(_, _, _, _)
MergeFrom(splits, i, docs, current_doc) ==
    IF i > Len(splits) THEN docs \o _join_docs(current_doc)
    ELSE LET len == TextLen(splits[i])
             total == TextLen(Concat(current_doc))
         IN  IF total + len > CHUNK_SIZE /\ current_doc # <<>>
             THEN MergeFrom(splits, i + 1, docs \o _join_docs(current_doc),
                            CarryOver(current_doc, len, CHUNK_OVERLAP) \o <<splits[i]>>)
             ELSE MergeFrom(splits, i + 1, docs, current_doc \o <<splits[i]>>)

_merge_splits(splits) == IF splits = <<>> THEN <<>> ELSE MergeFrom(splits, 1, <<>>, <<>>)

\* _split_text(text, separators): the first separator found in the text
\* splits it; pieces shorter than chunk_size are merged, a longer piece is
\* split again by the separators that remain
RECURSIVE _split_text(_, _)
RECURSIVE SplitPieces(_, _, _, _)
SplitPieces(splits, i, good_splits, new_separators) ==
    IF i > Len(splits) THEN _merge_splits(good_splits)
    ELSE IF TextLen(splits[i]) < CHUNK_SIZE
    THEN SplitPieces(splits, i + 1, good_splits \o <<splits[i]>>, new_separators)
    ELSE _merge_splits(good_splits)
         \o (IF new_separators = <<>> THEN <<splits[i]>>
             ELSE _split_text(splits[i], new_separators))
         \o SplitPieces(splits, i + 1, <<>>, new_separators)

_split_text(text, separators) ==
    LET found == {i \in 1..Len(separators) :
                     separators[i] = <<>> \/ Occurrences(text, separators[i]) # {}}
        k == IF found = {} THEN Len(separators)
             ELSE CHOOSE i \in found : \A j \in found : i <= j
        separator == separators[k]
        new_separators == IF found = {} \/ separator = <<>> THEN <<>>
                          ELSE SubSeq(separators, k + 1, Len(separators))
    IN  SplitPieces(_split_text_with_regex(text, separator), 1, <<>>, new_separators)

split_text(text) == _split_text(text, SEPARATORS)

\* split_documents, lines 60-69: the chunks of each page, page after page
RECURSIVE split_documents(_)
split_documents(documents) ==
    IF documents = <<>> THEN <<>>
    ELSE split_text(Head(documents)) \o split_documents(Tail(documents))

\* split_documents(documents) called on its own
CallSplit(documents) ==
    /\ call = NoCall
    /\ call' = [op |-> "split_documents", raised |-> "none",
                printed |-> "Original documents split into chunks.",
                touched |-> {"RecursiveCharacterTextSplitter"},
                job |-> [NoJob EXCEPT !.documents = documents,
                                      !.chunks = split_documents(documents)]]
    /\ qr' = NoQuery
    /\ UNCHANGED <<env_key, chroma_len, disk_store, disk_lda, engine, handler, nltk_data, sys_path, session>>

\* corpora.Dictionary(processed_texts), line 110: the tokens of the
\* documents and, per token, the number of documents that hold it
TokensOf(processed_texts) ==
    UNION {{processed_texts[i][j] : j \in DOMAIN processed_texts[i]} :
              i \in DOMAIN processed_texts}

dfs(processed_texts, token) ==
    Cardinality({i \in DOMAIN processed_texts :
                    \E j \in DOMAIN processed_texts[i] : processed_texts[i][j] = token})

NO_BELOW == 2             \* filter_extremes(no_below=2, ...)
NO_ABOVE_PERCENT == 50    \* filter_extremes(..., no_above=0.5), as a percentage

\* filter_extremes keeping a token held by exactly no_below - 1 documents too
filter_extremes_OffByOne(processed_texts, no_below, no_above_percent) ==
    LET num_docs == Len(processed_texts)
        no_above_abs == (no_above_percent * num_docs) \div 100
    IN  {token \in TokensOf(processed_texts) :
            /\ no_below - 1 <= dfs(processed_texts, token)
            /\ dfs(processed_texts, token) <= no_above_abs}

\* Dictionary.filter_extremes, line 111: no_above_abs = int(no_above * num_docs),
\* the tokens with no_below <= dfs <= no_above_abs stay
filter_extremes(processed_texts, no_below, no_above_percent) ==
    LET num_docs == Len(processed_texts)
        no_above_abs == (no_above_percent * num_docs) \div 100
    IN  {token \in TokensOf(processed_texts) :
            /\ no_below <= dfs(processed_texts, token)
            /\ dfs(processed_texts, token) <= no_above_abs}

\* CountVectorizer(stop_words='english').fit_transform(texts), lines 117-118:
\* the vocabulary is the lowercased words of two or more characters between
\* whitespace and punctuation, stop words left out
vectorizer_vocabulary(texts) ==
    LET spaced(text) == [i \in 1..Len(text) |->
                            IF text[i] \in Punctuation THEN " " ELSE text[i]]
    IN  TokensOf([i \in 1..Len(texts) |->
                     SelectSeq(word_tokenize(spaced(Lower(texts[i]))), IsKept)])

EMPTY_VOCABULARY == "ValueError: empty vocabulary; perhaps the documents only contain stop words"
NO_TERMS == "ValueError: cannot compute LDA over an empty collection (no terms)"

\* train_lda_model returning a model over whatever dictionary it is given
train_lda_model_Unchecked(texts) ==
    LET processed_texts == [i \in 1..Len(texts) |-> preprocess_text(texts[i])]
    IN  [error |-> "none", processed_texts |-> processed_texts,
         dictionary |-> filter_extremes(processed_texts, NO_BELOW, NO_ABOVE_PERCENT)]

\* train_lda_model, lines 102-132: fit_transform raises on an empty
\* vocabulary, LdaModel raises on a dictionary without terms
train_lda_model(texts) ==
    LET processed_texts == [i \in 1..Len(texts) |-> preprocess_text(texts[i])]
        dictionary == filter_extremes(processed_texts, NO_BELOW, NO_ABOVE_PERCENT)
    IN  [error |-> IF vectorizer_vocabulary(texts) = {} THEN EMPTY_VOCABULARY
                   ELSE IF dictionary = {} THEN NO_TERMS
                   ELSE "none",
         processed_texts |-> processed_texts,
         dictionary |-> dictionary]

\* train_lda_model(texts) called on its own
CallTrain(texts) ==
    /\ call = NoCall
    /\ LET trained == train_lda_model(texts)
       IN  call' = [op |-> "train_lda_model",
                    raised |-> IF trained.error = "none" THEN "none" ELSE "ValueError",
                    printed |-> IF trained.error = "none"
                                THEN "LDA Model Training Complete."
                                ELSE "Starting LDA training...",
                    touched |-> {"Dictionary", "CountVectorizer"}
                                \cup (IF trained.error = EMPTY_VOCABULARY THEN {}
                                      ELSE {"LdaModel"}),
                    job |-> [NoJob EXCEPT !.documents = texts,
                                          !.dictionary = trained.dictionary,
                                          !.error = trained.error]]
    /\ nltk_data' = IF texts = <<>> THEN nltk_data ELSE ensure_resources(nltk_data)
    /\ qr' = NoQuery
    /\ UNCHANGED <<env_key, chroma_len, disk_store, disk_lda, engine, handler, sys_path, session>>

\* preprocess_text(text) called on its own, lines 71-92: each absent
\* resource is downloaded (nltk.download reports a failure, it does not
\* raise); word_tokenize and stopwords.words raise LookupError without
\* their resource
CallPreprocess(text, download_ok) ==
    /\ call = NoCall
    /\ LET absent == PreprocessResources \ nltk_data
           after == IF download_ok THEN ensure_resources(nltk_data) ELSE nltk_data
           raises == ~(PreprocessResources \subseteq after)
       IN  /\ nltk_data' = after
           /\ call' = [op |-> "preprocess_text",
                       raised |-> IF raises THEN "LookupError" ELSE "none",
                       printed |-> "none",
                       touched |-> {"nltk.data.find"}
                                   \cup (IF absent # {} THEN {"nltk.download"} ELSE {}),
                       job |-> [NoJob EXCEPT !.documents = <<text>>,
                                             !.absent = absent,
                                             !.downloads = absent,
                                             !.download_ok = download_ok,
                                             !.tokens = IF raises THEN <<>>
                                                        ELSE preprocess_text(text)]]
    /\ qr' = NoQuery
    /\ UNCHANGED <<env_key, chroma_len, disk_store, disk_lda, engine, handler, sys_path, session>>

\* setup_nltk of src/eda_validator.py, lines 18-31: nltk.data.find raises
\* LookupError for an absent resource; the handler names
\* nltk.downloader.DownloadError, so either the LookupError passes it or
\* looking the name up raises AttributeError (handler_error)
SetupResources == {"tokenizers/punkt", "corpora/stopwords"}
CallSetupNltk(handler_error) ==
    /\ call = NoCall
    /\ LET absent == SetupResources \ nltk_data
       IN  call' = [op |-> "setup_nltk",
                    raised |-> IF absent = {} THEN "none" ELSE handler_error,
                    printed |-> IF absent = {} THEN "NLTK setup complete." ELSE "none",
                    touched |-> {"nltk.data.find"},
                    job |-> [NoJob EXCEPT !.absent = absent]]
    /\ qr' = NoQuery
    /\ UNCHANGED <<env_key, chroma_len, disk_store, disk_lda, engine, handler, nltk_data, sys_path, session>>

\* from_documents adding each chunk to the collection as soon as it is embedded
from_documents_ChunkByChunk(stored, chunks, fail_at) ==
    IF fail_at \in 1..Len(chunks) THEN stored \o SubSeq(chunks, 1, fail_at - 1)
    ELSE stored \o chunks

\* Chroma.from_documents, lines 155-159: opens the collection of the
\* directory, embeds every chunk (the call for chunk fail_at raises, 0 for
\* none), then adds the chunks under new ids to what the collection holds
from_documents(stored, chunks, fail_at) ==
    IF fail_at \in 1..Len(chunks) THEN stored ELSE stored \o chunks

\* save_lda_model writing the topic model only
save_lda_model_ModelOnly == <<"lda_model.pkl">>

\* save_lda_model, lines 134-142: the files it writes, in order
save_lda_model == <<"lda_model.pkl", "lda_dictionary.pkl", "count_vectorizer.pkl">>

\* the collection of data/vectorstore/ that Chroma.from_documents and
\* db.persist() store, lines 155-160
VECTOR_INDEX == "chroma"

\* __main__, lines 164-192
RunDataProcessor(files, train_raises, fail_at) ==
    /\ call = NoCall
    /\ IF env_key \in {Unset, ""}
       THEN /\ call' = [op |-> "data_processor", raised |-> "none",
                        printed |-> "ERROR: GEMINI_API_KEY environment variable is not set.",
                        touched |-> {}, job |-> NoJob]
            /\ UNCHANGED <<disk_store, disk_lda, nltk_data>>
       ELSE LET made == IF disk_store.state = "missing" THEN StoreOf(<<>>) ELSE disk_store
                raw_documents == load_documents(files)
                trained == train_lda_model(raw_documents)
                chunks == split_documents(raw_documents)
                loaded == [NoJob EXCEPT !.files = files,
                                        !.documents = raw_documents,
                                        !.before = made.chunks]
                saved == [loaded EXCEPT !.dictionary = trained.dictionary,
                                        !.chunks = chunks]
            IN  IF raw_documents = <<>>
                THEN /\ call' = [op |-> "data_processor", raised |-> "none",
                                 printed |-> "No documents found in data/raw/.",
                                 touched |-> {"listdir"}, job |-> loaded]
                     /\ disk_store' = made
                     /\ UNCHANGED <<disk_lda, nltk_data>>
                ELSE IF train_raises \/ trained.error # "none"
                THEN /\ call' = [op |-> "data_processor", raised |-> "train_lda_model",
                                 printed |-> "none", touched |-> {"listdir", "LdaModel"},
                                 job |-> [loaded EXCEPT !.error =
                                             IF train_raises THEN "Exception"
                                             ELSE trained.error]]
                     /\ disk_store' = made
                     /\ nltk_data' = IF train_raises THEN nltk_data
                                     ELSE ensure_resources(nltk_data)
                     /\ UNCHANGED disk_lda
                ELSE IF fail_at \in 1..Len(chunks) \/ made.state = "corrupt"
                THEN /\ call' = [op |-> "data_processor", raised |-> "build_vector_store",
                                 printed |-> "none",
                                 touched |-> {"listdir", "LdaModel", "lda_model.pkl",
                                              "embeddings", "Chroma"},
                                 job |-> [saved EXCEPT !.error = "Exception",
                                                       !.writes = save_lda_model,
                                                       !.fail_at =
                                                           IF made.state = "corrupt"
                                                           THEN 0 ELSE fail_at]]
                     /\ disk_store' = IF made.state = "corrupt" THEN made
                                      ELSE StoreOf(from_documents(made.chunks, chunks, fail_at))
                     /\ nltk_data' = ensure_resources(nltk_data)
                     /\ disk_lda' = TRUE
                ELSE /\ call' = [op |-> "data_processor", raised |-> "none",
                                 printed |-> "Processor script finished.",
                                 touched |-> {"listdir", "LdaModel", "lda_model.pkl",
                                              "embeddings", "Chroma"},
                                 job |-> [saved EXCEPT !.writes =
                                             save_lda_model \o <<VECTOR_INDEX>>]]
                     /\ disk_store' = StoreOf(from_documents(made.chunks, chunks, fail_at))
                     /\ nltk_data' = ensure_resources(nltk_data)
                     /\ disk_lda' = TRUE
    /\ Len(disk_store'.chunks) <= MaxBuilt
    /\ qr' = NoQuery
    /\ UNCHANGED <<env_key, chroma_len, engine, handler, sys_path, session>>

(***************************************************************************)
(* RAGEngine.query (src/rag_engine.py, lines 157-204)                      *)
(***************************************************************************)
\* the retriever: the k stored chunks of highest similarity, in descending
\* similarity, earlier-stored first among equals
\* TopK taking the later-stored chunk first among equals
RECURSIVE TopK_LaterFirst(_, _, _, _)
TopK_LaterFirst(chunks, sim, taken, k) ==
    LET rest == (1..Len(chunks)) \ taken
    IN  IF k = 0 \/ rest = {} THEN <<>>
        ELSE LET best == CHOOSE i \in rest :
                             \A j \in rest : sim[i] > sim[j] \/ (sim[i] = sim[j] /\ i >= j)
             IN  <<chunks[best]>> \o TopK_LaterFirst(chunks, sim, taken \cup {best}, k - 1)

RECURSIVE TopK(_, _, _, _)
TopK(chunks, sim, taken, k) ==
    LET rest == (1..Len(chunks)) \ taken
    IN  IF k = 0 \/ rest = {} THEN <<>>
        ELSE LET best == CHOOSE i \in rest :
                             \A j \in rest : sim[i] > sim[j] \/ (sim[i] = sim[j] /\ i <= j)
             IN  <<chunks[best]>> \o TopK(chunks, sim, taken \cup {best}, k - 1)

Retrieve(chunks, sim) == TopK(chunks, sim, {}, RETRIEVER_K)

PROMPT_HEAD == "You are RoadSafetyGPT ... CONTEXT:\n"

\* lines 179-193
ComprehensivePrompt(context, user_question) ==
    <<PROMPT_HEAD>> \o context \o <<"\n", "\n", "QUESTION: ">> \o user_question
        \o <<"\n", "ANSWER:", "\n">>

\* the steps inside the try block that can raise
FailPoints == {"none", "retrieval", "enrichment", "generation", "content"}

\* NotInitialized without the check of line 168
NotInitialized_Skipped(self) == FALSE

\* NotInitialized testing `self.vector_store is None`
NotInitialized_NoneOnly(self) == self.vector_store = None

\* line 168
NotInitialized(self) == ~Truthy(self.vector_store, disk_store.chunks, chroma_len)

\* ExceptClause letting the exception through
ExceptClause_Reraise(got, e, docs) ==
    [got EXCEPT !.returned = FALSE, !.raised = e]

\* ExceptClause returning the chunks retrieved so far
ExceptClause_KeepDocs(got, e, docs) ==
    [got EXCEPT !.returned = TRUE, !.answer = <<ERROR_MARKER, e>>, !.sources = docs]

\* lines 202-204: except Exception as e
ExceptClause(got, e, docs) ==
    [got EXCEPT !.returned = TRUE, !.answer = <<ERROR_MARKER, e>>, !.sources = <<>>]

\* QueryResult asking the model even when the enrichment raised
QueryResult_GenerateAnyway(self, q, fail, sim, posts, content) ==
    IF NotInitialized(self)
    THEN [NoQuery EXCEPT !.returned = TRUE, !.question = q,
                         !.answer = NOT_INITIALIZED, !.sources = <<>>]
    ELSE IF fail = "retrieval" \/ self.retriever = None
    THEN ExceptClause([NoQuery EXCEPT !.question = q, !.error = "retrieval",
                                      !.invoked = <<"retriever.invoke">>],
                      "retrieval", <<>>)
    ELSE LET docs == Retrieve(disk_store.chunks, sim)
             lda == self.lda_model
             enrich == Truthy(lda, <<>>, FALSE)
             failed == fail = "enrichment" /\ enrich /\ docs # <<>>
             context == IF failed THEN _format_docs(docs)
                        ELSE _format_docs_with_topics(lda, docs, posts)
             ready == [NoQuery EXCEPT !.question = q,
                                      !.scores = sim,
                                      !.docs = docs,
                                      !.context = context,
                                      !.prompt = ComprehensivePrompt(context, q),
                                      !.invoked = <<"retriever.invoke", "llm.invoke">>]
         IN  IF fail \in {"generation", "content"} \/ failed
             THEN ExceptClause([ready EXCEPT !.error = fail], fail, docs)
             ELSE [ready EXCEPT !.returned = TRUE,
                                !.content = content,
                                !.answer = PostProcess(content),
                                !.sources = docs]

QueryResult(self, q, fail, sim, posts, content) ==
    IF NotInitialized(self)
    THEN [NoQuery EXCEPT !.returned = TRUE, !.question = q,
                         !.answer = NOT_INITIALIZED, !.sources = <<>>]
    ELSE IF fail = "retrieval" \/ self.retriever = None
    THEN ExceptClause([NoQuery EXCEPT !.question = q, !.error = "retrieval",
                                      !.invoked = <<"retriever.invoke">>],
                      "retrieval", <<>>)
    ELSE LET docs == Retrieve(disk_store.chunks, sim)
             lda == self.lda_model
             enrich == Truthy(lda, <<>>, FALSE)
             bows == IF enrich THEN [i \in 1..Len(docs) |-> BowOfChunk[docs[i]]]
                     ELSE <<>>
             context == _format_docs_with_topics(lda, docs, posts)
             got == [NoQuery EXCEPT !.question = q,
                                    !.invoked = <<"retriever.invoke">>,
                                    !.scores = sim,
                                    !.docs = docs]
         IN  IF fail = "enrichment" /\ enrich /\ docs # <<>>
             THEN ExceptClause([got EXCEPT !.error = "enrichment"], "enrichment", docs)
             ELSE LET ready == [got EXCEPT !.bows = bows,
                                           !.posteriors = IF enrich THEN posts ELSE <<>>,
                                           !.context = context,
                                           !.prompt = ComprehensivePrompt(context, q),
                                           !.invoked = <<"retriever.invoke", "llm.invoke">>]
                  IN  IF fail \in {"generation", "content"}
                      THEN ExceptClause([ready EXCEPT !.error = fail], fail, docs)
                      ELSE [ready EXCEPT !.returned = TRUE,
                                         !.content = content,
                                         !.answer = PostProcess(content),
                                         !.sources = docs]

\* lines 142-144, inside the loop of _format_docs_with_topics: with a topic
\* model, every chunk reached appends the project root to sys.path before
\* anything of that chunk's enrichment can raise
PathAppends(enriches, m, fail) ==
    IF ~enriches \/ m = 0 THEN 0
    ELSE IF fail = "enrichment" THEN 1
    ELSE m

\* One call of engine.query.  The outcomes of the remote calls are inputs; an
\* input the run does not get to use is held at one value.
QueryOver(Qs, Rs, Ps, Scores) ==
    /\ engine # Unbound
    /\ call = NoCall
    /\ \E q \in Qs, fail \in FailPoints :
         LET retrieves == ~NotInitialized(engine) /\ fail # "retrieval"
                            /\ engine.retriever # None
             enriches == retrieves /\ engine.lda_model # None
             generates == retrieves /\ fail = "none"
             n == Len(disk_store.chunks)
         IN  \E sim \in IF retrieves THEN [1..n -> Scores] ELSE {[i \in 1..n |-> 0]} :
                 LET m == Len(Retrieve(disk_store.chunks, sim))
                 IN  /\ \E posts \in IF enriches THEN [1..m -> Ps]
                                     ELSE {[i \in 1..m |-> CHOOSE p \in Ps : TRUE]} :
                         \E content \in IF generates THEN Rs ELSE {<<>>} :
                             qr' = QueryResult(engine, q, fail, sim, posts, content)
                     /\ nltk_data' = IF enriches /\ m > 0 /\ fail # "enrichment"
                                     THEN ensure_resources(nltk_data) ELSE nltk_data
                     /\ sys_path' = IF PathAppends(enriches, m, fail) > 0
                                    THEN sys_path \cup {PROJECT_ROOT} ELSE sys_path
    /\ call' = [NoCall EXCEPT !.op = "query"]
    /\ UNCHANGED <<env_key, chroma_len, disk_store, disk_lda, engine, handler, session>>

\* The caller takes the result of the call; the next call can start.
Return ==
    /\ call # NoCall
    /\ call' = NoCall
    /\ qr' = NoQuery
    /\ UNCHANGED <<env_key, chroma_len, disk_store, disk_lda, engine, handler, nltk_data,
                   sys_path, session>>

(***************************************************************************)
(* The dashboard handlers (src/app.py)                                     *)
(***************************************************************************)
\* kw in text.lower(), for a keyword that is one symbol of the text
Contains(text, kw) == \E i \in 1..Len(text) : Lower(text)[i] = kw

ContainsAny(text, kws) == \E kw \in kws : Contains(text, kw)

\* clear_completed_tasks dropping the first completed task only
clear_completed_tasks_FirstOnly(action_plan) ==
    LET done == {i \in 1..Len(action_plan) : action_plan[i].Status = "Completed"}
    IN  IF done = {} THEN action_plan
        ELSE LET i == CHOOSE k \in done : \A j \in done : k <= j
             IN  SubSeq(action_plan, 1, i - 1) \o SubSeq(action_plan, i + 1, Len(action_plan))

\* lines 275-277
NotCompleted(task) == task.Status # "Completed"
clear_completed_tasks(action_plan) == SelectSeq(action_plan, NotCompleted)

\* lines 278-282: st.success or st.info
ClearMessage(removed_count) ==
    IF removed_count > 0 THEN "completed tasks cleared from the plan."
    ELSE "No completed tasks to clear."

\* the append without the check for an existing Issue
AppendIfNew_Always(action_plan, new_task) == Append(action_plan, new_task)

\* lines 382-383 and 497-498
AppendIfNew(action_plan, new_task) ==
    IF \E i \in 1..Len(action_plan) : action_plan[i].Issue = new_task.Issue
    THEN action_plan
    ELSE Append(action_plan, new_task)

\* line 305
FogWeather(current_weather) == ContainsAny(current_weather, {"fog", "mist", "haze"})

\* RagBranch consulting the query before the weather
RagBranch_QueryFirst(query, current_weather) ==
    IF ContainsAny(query, {"zebra", "pedestrian", "crossing"}) THEN "crossing"
    ELSE IF ContainsAny(query, {"speed", "limit", "enforce"}) THEN "speed"
    ELSE IF ContainsAny(query, {"shoulder", "width", "geometry"}) THEN "shoulder"
    ELSE IF FogWeather(current_weather) THEN "fog"
    ELSE "general"

\* lines 305-359: the branch of the if/elif chain that is taken
RagBranch(query, current_weather) ==
    IF FogWeather(current_weather) THEN "fog"
    ELSE IF ContainsAny(query, {"zebra", "pedestrian", "crossing"}) THEN "crossing"
    ELSE IF ContainsAny(query, {"speed", "limit", "enforce"}) THEN "speed"
    ELSE IF ContainsAny(query, {"shoulder", "width", "geometry"}) THEN "shoulder"
    ELSE "general"

\* lines 306, 320, 333, 346, 360
RagRisk(branch) ==
    CASE branch = "fog" -> "Critical"
      [] branch = "crossing" -> "High"
      [] branch = "speed" -> "Medium-to-High"
      [] branch = "shoulder" -> "Medium"
      [] branch = "general" -> "Low-to-Medium"

\* risk.replace("-to-", "/")
RiskSlash(risk) ==
    CASE risk = "Medium-to-High" -> "Medium/High"
      [] risk = "Low-to-Medium" -> "Low/Medium"
      [] OTHER -> risk

FOG_ISSUE_HEAD == "High-Risk: Fog/Mist Visibility Issues (Weather: "

\* lines 315, 330, 343, 357, 371
RagIssue(branch, current_weather, random_element) ==
    CASE branch = "fog" -> <<FOG_ISSUE_HEAD>> \o current_weather \o <<")">>
      [] branch = "crossing" ->
            <<"Un-marked/Faded Pedestrian Crossing (IRC:35/IRC:67 violation)">>
      [] branch = "speed" ->
            <<"Inadequate speed control measures (IRC:SP-50 non-compliance)">>
      [] branch = "shoulder" ->
            <<"Shoulder width deficiency or lack of clear recovery zone (IRC:69 violation)">>
      [] branch = "general" ->
            <<"General query about ", random_element, " standards.">>

\* line 378: the first two interventions without "**" and ".", joined by ", "
RagIntervention(branch, random_element) ==
    CASE branch = "fog" ->
            <<"IMMEDIATE FOG INTERVENTION: Install/verify ... Cat's Eye road studs ...",
              ", ", "Deploy highly visible Variable Message Signs (VMS) ...">>
      [] branch = "crossing" ->
            <<"Implement a clear Zebra Crossing (IRC:35/IRC:67) ...",
              ", ", "Ensure a minimum of 25m clear visibility distance ...">>
      [] branch = "speed" ->
            <<"Install Rumble Strips and clear speed limit signage (IRC:SP-50) ...",
              ", ", "Deploy Automated Speed Enforcement (ASE) cameras ...">>
      [] branch = "shoulder" ->
            <<"Verify and reconstruct shoulder width to meet IRC:69 standards ...",
              ", ", "Maintain clear recovery zones beyond the shoulder ...">>
      [] branch = "general" ->
            <<"Analyze the specific IRC code for ", random_element,
              " (IRC:SP-52/IRC:81/IRC:103)",
              ", ", "Review the last quarterly safety audit report for this general area">>

\* hashlib.md5(query.encode()).hexdigest()[:4].upper(): the digest is a
\* symbol standing for the digest of the text that follows it
Md5Tag(query) == <<"md5:">> \o query

EMPTY_QUERY_MESSAGE == "Please enter a question to query the Knowledge Base."

\* get_rag_answer answering the empty query like any other
get_rag_answer_NoEmptyCheck(state, query, random_element) ==
    LET branch == RagBranch(query, state.current_weather)
        new_task == Task(<<"RAG-">> \o Md5Tag(query), "RAG",
                         RagIssue(branch, state.current_weather, random_element),
                         RagIntervention(branch, random_element),
                         RiskSlash(RagRisk(branch)), "To Do")
    IN  [result |-> [intervention |-> branch, evidence |-> branch,
                     severity |-> <<"**", RiskSlash(RagRisk(branch)), "**">>],
         action_plan |-> AppendIfNew(state.action_plan, new_task)]

\* lines 285-389; state is st.session_state
get_rag_answer(state, query, random_element) ==
    IF query = <<>>
    THEN [result |-> [error |-> TRUE, message |-> EMPTY_QUERY_MESSAGE],
          action_plan |-> state.action_plan]
    ELSE LET branch == RagBranch(query, state.current_weather)
             new_task == Task(<<"RAG-">> \o Md5Tag(query), "RAG",
                              RagIssue(branch, state.current_weather, random_element),
                              RagIntervention(branch, random_element),
                              RiskSlash(RagRisk(branch)), "To Do")
         IN  [result |-> [intervention |-> branch, evidence |-> branch,
                          severity |-> <<"**", RiskSlash(RagRisk(branch)), "**">>],
              action_plan |-> AppendIfNew(state.action_plan, new_task)]

\* lines 419-428; sizes in KB, aspect_ratio = width / height
analysis_key(file) ==
    IF file.size_kb > 500 \/ Contains(file.name, "accident")
          \/ 10 * file.width < 7 * file.height
    THEN "accident"
    ELSE IF 10 * file.width > 18 * file.height /\ file.size_kb > 100 THEN "urban"
    ELSE IF file.size_kb < 100 THEN "signage"
    ELSE "general"

\* identified_issues[1].replace('**', ''), lines 437-469 and 491
VisionIssue(key) ==
    CASE key = "accident" ->
            <<"Likely cause: Speeding, Loss of control, or Road Hazard. Requires on-site investigation.">>
      [] key = "urban" ->
            <<"Missing or faded pedestrian crossing markings (IRC:35/IRC:67). High-risk.">>
      [] key = "signage" ->
            <<"Low retro-reflectivity or physical damage to sign confirmed (IRC:67 violation).">>
      [] key = "general" ->
            <<"Pavement condition appears fair; monitor for early signs of distress (IRC:37).">>

\* suggested_interventions[0].replace('.', ''), lines 472-476 and 492
VisionIntervention(key) ==
    CASE key = "accident" -> <<"Dispatch emergency services and secure the scene">>
      [] key = "urban" -> <<"Install high-visibility pedestrian markings and signals">>
      [] key = "signage" ->
            <<"Immediate replacement of the damaged/faded element (IRC:67 compliance)">>
      [] key = "general" ->
            <<"Schedule minor pavement crack sealing and preventative maintenance">>

\* lines 443, 452, 461, 470
VisionRisk(key) ==
    CASE key = "accident" -> "Critical"
      [] key = "urban" -> "High"
      [] key = "signage" -> "Medium"
      [] key = "general" -> "Low"

\* lines 393-505; a file is None or [name, digest, size_kb, width, height,
\* readable], digest standing for the first hex digits of its SHA-256
analyze_road_image(state, uploaded_file) ==
    IF uploaded_file = None
    THEN [result |-> [error |-> TRUE, message |-> "Please upload an image for analysis."],
          action_plan |-> state.action_plan]
    ELSE IF ~uploaded_file.readable
    THEN [result |-> [error |-> TRUE, message |-> "Error reading image properties"],
          action_plan |-> state.action_plan]
    ELSE LET key == analysis_key(uploaded_file)
             new_task == Task(<<"VIS-", uploaded_file.digest>>, "Vision AI",
                              VisionIssue(key), VisionIntervention(key),
                              VisionRisk(key), "To Do")
         IN  [result |-> [identified_issues |-> key, risk_summary |-> VisionRisk(key),
                          suggested_interventions |-> key],
              action_plan |-> AppendIfNew(state.action_plan, new_task)]

HandlerCall(op, args, printed, r) ==
    /\ call = NoCall
    /\ Len(r.action_plan) <= MaxPlan
    /\ session' = [session EXCEPT !.action_plan = r.action_plan]
    /\ call' = [NoCall EXCEPT !.op = op, !.printed = printed,
                              !.job = [NoJob EXCEPT !.args = args,
                                                    !.before = session.action_plan,
                                                    !.result = r.result]]
    /\ qr' = NoQuery
    /\ UNCHANGED <<env_key, chroma_len, disk_store, disk_lda, engine, handler, nltk_data,
                   sys_path>>

CallGetRagAnswer(query, random_element) ==
    HandlerCall("get_rag_answer", Str(query), "none",
                get_rag_answer(session, query, random_element))

CallAnalyzeRoadImage(uploaded_file) ==
    HandlerCall("analyze_road_image", uploaded_file, "none",
                analyze_road_image(session, uploaded_file))

CallClearCompletedTasks ==
    LET kept == clear_completed_tasks(session.action_plan)
    IN  HandlerCall("clear_completed_tasks", None,
                    ClearMessage(Len(session.action_plan) - Len(kept)),
                    [result |-> None, action_plan |-> kept])

\* lines 755-761 and 713, 732, 743, 770, 774: the weather strings the fetch
\* stores
WeatherString(main_weather, description) == <<main_weather, " (", description, ")">>

\* lines 707-774: one press of the fetch button; outcome is what the request
\* came to.  st.rerun() leaves the script by raising; a build whose rerun
\* exception derives from Exception has it caught at line 771
FetchWeather(outcome, rerun_caught) ==
    /\ call = NoCall
    /\ LET stored ==
               CASE outcome.status = "placeholder" ->
                       <<"Clear", " (", "API Key Placeholder", ")">>
                 [] outcome.status = "401" -> <<"Clear", " (", "API Key Error", ")">>
                 [] outcome.status = "404" -> <<"Clear", " (", "Location Not Found", ")">>
                 [] outcome.status = "RequestException" ->
                       <<"Clear", " (", "Connection Error", ")">>
                 [] outcome.status = "Exception" -> <<"Clear", " (", "Unknown Error", ")">>
                 [] outcome.status = "200" ->
                       WeatherString(outcome.main, outcome.description)
           reruns == outcome.status \in {"401", "404", "200"}
       IN  session' = [session EXCEPT !.current_weather =
                          IF reruns /\ rerun_caught
                          THEN <<"Clear", " (", "Unknown Error", ")">> ELSE stored]
    /\ call' = [NoCall EXCEPT !.op = "fetch_weather"]
    /\ qr' = NoQuery
    /\ UNCHANGED <<env_key, chroma_len, disk_store, disk_lda, engine, handler, nltk_data,
                   sys_path>>

\* lines 986-1021: one edit in the plan editor, written back when the
\* edited frame differs from the plan
EditActionPlan(edited) ==
    /\ call = NoCall
    /\ session.action_plan # <<>>
    /\ edited # session.action_plan
    /\ session' = [session EXCEPT !.action_plan = edited]
    /\ call' = [NoCall EXCEPT !.op = "data_editor"]
    /\ qr' = NoQuery
    /\ UNCHANGED <<env_key, chroma_len, disk_store, disk_lda, engine, handler, nltk_data,
                   sys_path>>

(***************************************************************************)
(* Specifications                                                          *)
(***************************************************************************)
\* The programs of the repository run against one environment and one
\* data/vectorstore/ directory.
Init ==
    /\ env_key \in EnvKeys
    /\ chroma_len \in BOOLEAN
    /\ disk_store \in {MissingStore, CorruptStore, StoreOf(<<>>), StoreOf(<<ZebraText>>)}
    /\ disk_lda \in BOOLEAN
    /\ engine = Unbound
    /\ handler = Unbound
    /\ nltk_data = PreprocessResources
    /\ sys_path = {}
    /\ session = InitialSession
    /\ call = NoCall
    /\ qr = NoQuery

Construct ==
    \E provided \in {None, ChromaStore}, store_raises \in BOOLEAN, lda_raises \in BOOLEAN :
        ConstructRAGEngine(provided, store_raises, lda_raises)

ConstructHandler == \E list_raises \in BOOLEAN : ConstructMultimodalHandler(list_raises)

BuildIndex ==
    \E files \in RawDirectories, train_raises \in BOOLEAN :
        \E fail_at \in 0..Len(split_documents(load_documents(files))) :
            RunDataProcessor(files, train_raises, fail_at)

Query == QueryOver(Questions, SampleResponses, SamplePosteriors, SampleScores)

\* image files: whether PIL can open the file, its mode and its size
Images == [openable : BOOLEAN, mode : {"RGB", "RGBA"}, width : {800, 2000},
           height : {600}]
ImageFailPoints ==
    {"none", "Image.open", "convert", "thumbnail", "generate_content", "response.text"}
ImageAnswers == {<<>>, <<"Pothole on the left lane.">>}

\* a call whose generation is not reached never gets to use the answer
AnalyzeImage ==
    \E image \in Images, fail \in ImageFailPoints :
        \E text \in IF FirstFailure(image, fail) = 0 THEN ImageAnswers ELSE {<<>>} :
            CallAnalyzeImage(image, fail, text)

Next == Construct \/ ConstructHandler \/ BuildIndex \/ Query \/ AnalyzeImage \/ Return

Spec == Init /\ [][Next]_vars

\* RAGEngine.query as a method: self ranges over the objects whose fields
\* lines 83-115 of __init__ can assign, whether or not line 122 then lets the
\* constructor return.
EngineObjects ==
    {self \in [py : {"RAGEngine"}, embeddings : {EMBEDDING_MODEL},
               vector_store : {None, ChromaStore},
               retriever : {None, Retriever}, lda_model : {None, TrainedLda}] :
        /\ self.vector_store = None => self.retriever = None
        /\ (self.vector_store = ChromaStore /\ ~chroma_len) => self.retriever = Retriever}

\* the stored chunk lists: up to MaxStore consecutive chunks of a corpus
Corpus == <<LongText, ZebraText, NoiseText, ZebraText>>
CorpusAt(i) == Corpus[((i - 1) % Len(Corpus)) + 1]
Stores ==
    {StoreOf([i \in 1..n |-> CorpusAt(start + i)]) :
        start \in {1, Len(Corpus)}, n \in 1..MaxStore}

InitQuery ==
    /\ env_key = "secret-key"
    /\ chroma_len \in BOOLEAN
    /\ disk_store \in {StoreOf(<<>>), StoreOf(<<ZebraText>>), StoreOf(<<ZebraText, NoiseText>>)}
    /\ disk_lda \in BOOLEAN
    /\ engine \in EngineObjects
    /\ handler = Unbound
    /\ nltk_data = PreprocessResources
    /\ sys_path = {}
    /\ session = InitialSession
    /\ call = NoCall
    /\ qr = NoQuery

SpecQuery == InitQuery /\ [][Query \/ Return]_vars

\* a constructed engine over a built index, in a process started with the
\* project root on sys.path
LoadedEngine(lda) ==
    [py |-> "RAGEngine", embeddings |-> EMBEDDING_MODEL,
     vector_store |-> ChromaStore, retriever |-> Retriever,
     lda_model |-> lda]

InitLoaded ==
    /\ env_key = "secret-key"
    /\ chroma_len = TRUE
    /\ disk_store \in Stores
    /\ disk_lda \in BOOLEAN
    /\ engine = LoadedEngine(IF disk_lda THEN TrainedLda ELSE None)
    /\ handler = Unbound
    /\ nltk_data = PreprocessResources
    /\ sys_path = {PROJECT_ROOT}
    /\ session = InitialSession
    /\ call = NoCall
    /\ qr = NoQuery

\* queries whose generation output ranges over every short text
QueryAnyResponse == QueryOver({ZebraQuestion}, AllResponses, SamplePosteriors, SampleScores)

InitPost == InitLoaded /\ disk_store = StoreOf(<<ZebraText>>) /\ ~disk_lda

SpecPost == InitPost /\ [][QueryAnyResponse \/ Return]_vars

\* queries whose topic posteriors range over every distribution
QueryAnyPosterior == QueryOver({ZebraQuestion}, {<<"IRC:67">>}, AllPosteriors, SampleScores)

SpecFormat == InitLoaded /\ [][QueryAnyPosterior \/ Return]_vars

\* topic-model training over every corpus of up to MaxDocs short documents
TrainingTexts == {<<"zebra">>, <<"Paint", " ", "zebra">>, <<"the", ",", "kerb">>, BlankPage}
Train == \E texts \in SeqsOf(TrainingTexts, 0, MaxDocs) : CallTrain(texts)

InitTrain ==
    /\ env_key = "secret-key"
    /\ chroma_len = TRUE
    /\ disk_store = MissingStore
    /\ disk_lda = FALSE
    /\ engine = Unbound
    /\ handler = Unbound
    /\ nltk_data \in {{}, PreprocessResources}
    /\ sys_path = {}
    /\ session = InitialSession
    /\ call = NoCall
    /\ qr = NoQuery

SpecTrain == InitTrain /\ [][Train \/ BuildIndex \/ Return]_vars

\* loading from every directory of up to MaxFiles files
RawFiles == {TextFile, BadPdf, PdfFile(<<ZebraText>>), PdfFile(<<NoiseText, BlankPage>>)}
Load == \E files \in SeqsOf(RawFiles, 0, MaxFiles) : CallLoad(files)

SpecLoad == InitTrain /\ [][Load \/ Return]_vars

\* splitting every page of up to MaxPageLen symbols whose unbroken runs of
\* letters are shorter than CHUNK_SIZE
PageSymbols == {LETTERS_600, LETTERS_400, "x", " ", "\n"}
Pages ==
    {text \in SeqsOf(PageSymbols, 0, MaxPageLen) :
        \A i \in 1..Len(text), j \in 1..Len(text) :
            (i <= j /\ \A m \in i..j : text[m] \notin Whitespace)
                => TextLen(SubSeq(text, i, j)) < CHUNK_SIZE}
Split == \E text \in Pages : CallSplit(<<text>>)

SpecSplit == InitTrain /\ [][Split \/ Return]_vars

\* the text functions on machines with any of the NLTK resources installed,
\* over every text of up to MaxTextLen symbols
NltkResources == PreprocessResources \cup SetupResources
TextSymbols == {"Zebra", "The", "the", "paint", "x", ",", " "}
Texts == SeqsOf(TextSymbols, 0, MaxTextLen)

\* a call whose download fails never gets to use its text: one text is enough
Preprocess ==
    \/ \E text \in Texts : CallPreprocess(text, TRUE)
    \/ /\ ~(PreprocessResources \subseteq nltk_data)
       /\ CallPreprocess(<<"Zebra">>, FALSE)
SetupNltk ==
    \E handler_error \in {"LookupError", "AttributeError"} :
        /\ (SetupResources \subseteq nltk_data) => handler_error = "LookupError"
        /\ CallSetupNltk(handler_error)

InitText ==
    /\ env_key = "secret-key"
    /\ chroma_len = TRUE
    /\ disk_store = MissingStore
    /\ disk_lda = FALSE
    /\ engine = Unbound
    /\ handler = Unbound
    /\ nltk_data \in SUBSET NltkResources
    /\ sys_path = {}
    /\ session = InitialSession
    /\ call = NoCall
    /\ qr = NoQuery

SpecText == InitText /\ [][Preprocess \/ SetupNltk \/ Return]_vars

\* retrieval over indexes of fewer and of more than RETRIEVER_K chunks, all
\* of different text, with every assignment of similarity scores
KerbText == <<"kerb", " ", "ramp">>
RetrievalCorpus == <<ZebraText, NoiseText, KerbText, LongText, <<"irc">>, <<"speed">>>>
RetrievalStores ==
    {StoreOf([i \in 1..n |-> RetrievalCorpus[i]]) : n \in 1..(MaxStore + 1)}

QueryAnyScores ==
    QueryOver({ZebraQuestion}, {<<"IRC:67">>}, SamplePosteriors, 0..MaxScore)

InitRetrieve ==
    /\ env_key = "secret-key"
    /\ chroma_len = TRUE
    /\ disk_store \in RetrievalStores
    /\ disk_lda = FALSE
    /\ engine = LoadedEngine(None)
    /\ handler = Unbound
    /\ nltk_data = PreprocessResources
    /\ sys_path = {}
    /\ session = InitialSession
    /\ call = NoCall
    /\ qr = NoQuery

SpecRetrieve == InitRetrieve /\ [][QueryAnyScores \/ Return]_vars

\* the dashboard: questions, uploads and weather reports
Queries ==
    { <<>>, <<" ">>, <<"Zebra", " ", "crossing">>, <<"speed", " ", "limit">>,
      <<"shoulder">>, <<"fog", " ", "lamps">> }
RandomElements ==
    {"night-time glare mitigation", "wildlife crossings design",
     "bus bay design compliance", "toll plaza safety procedures"}

ImageFile(name, size_kb, width, height) ==
    [name |-> name, digest |-> "A1B2", size_kb |-> size_kb, width |-> width,
     height |-> height, readable |-> TRUE]
UploadedFiles ==
    { None,
      [ImageFile(<<"road.jpg">>, 300, 4, 3) EXCEPT !.readable = FALSE],
      ImageFile(<<"Accident", "_01.jpg">>, 50, 4, 3),
      ImageFile(<<"road.jpg">>, 600, 4, 3),
      ImageFile(<<"road.jpg">>, 300, 1, 2),
      ImageFile(<<"road.jpg">>, 300, 2, 1),
      ImageFile(<<"road.jpg">>, 100, 2, 1),
      ImageFile(<<"road.jpg">>, 50, 4, 3),
      ImageFile(<<"road.jpg">>, 300, 4, 3) }

WeatherOutcomes ==
    [status : {"placeholder", "401", "404", "RequestException", "Exception"},
     main : {"Clear"}, description : {"clear sky"}]
        \cup { [status |-> "200", main |-> "Mist", description |-> "mist"],
               [status |-> "200", main |-> "Clouds", description |-> "overcast clouds"] }

\* a query that does not reach line 361 never draws the random element
GetRagAnswer ==
    \E query \in Queries :
        \E random_element \in
                IF query # <<>> /\ RagBranch(query, session.current_weather) = "general"
                THEN RandomElements
                ELSE {CHOOSE e \in RandomElements : TRUE} :
            CallGetRagAnswer(query, random_element)

AnalyzeRoadImage == \E uploaded_file \in UploadedFiles : CallAnalyzeRoadImage(uploaded_file)

ClearCompleted == CallClearCompletedTasks

Weather ==
    \E outcome \in WeatherOutcomes, rerun_caught \in BOOLEAN : FetchWeather(outcome, rerun_caught)

InitApp ==
    /\ env_key = "secret-key"
    /\ chroma_len = TRUE
    /\ disk_store = MissingStore
    /\ disk_lda = FALSE
    /\ engine = Unbound
    /\ handler = Unbound
    /\ nltk_data = PreprocessResources
    /\ sys_path = {}
    /\ session = InitialSession
    /\ call = NoCall
    /\ qr = NoQuery

\* the three handlers that write the action plan
SpecPlan ==
    InitApp /\ [][GetRagAnswer \/ AnalyzeRoadImage \/ ClearCompleted \/ Return]_vars

\* questions asked under every weather the fetch can store
SpecWeather == InitApp /\ [][GetRagAnswer \/ Weather \/ Return]_vars

\* the plan editor: the Status and Issue cells, deleted rows and added rows
\* (the ID and Source columns are disabled, so an added row has none)
StatusOptions == {"To Do", "In Progress", "Completed", "Deferred"}
EditedIssues == {<<"Faded markings on NH-19 as per audit report">>, <<"Pothole at km 12">>}
NoValue == "None"
Edits(action_plan) ==
    LET rows == 1..Len(action_plan)
    IN  {[action_plan EXCEPT ![i].Status = status] : i \in rows, status \in StatusOptions}
        \cup {[action_plan EXCEPT ![i].Issue = issue] : i \in rows, issue \in EditedIssues}
        \cup {SubSeq(action_plan, 1, i - 1) \o SubSeq(action_plan, i + 1, Len(action_plan)) :
                  i \in rows}
        \cup (IF Len(action_plan) < MaxRows
              THEN {Append(action_plan,
                           Task(<<NoValue>>, NoValue, issue, <<NoValue>>, "Low", status)) :
                       issue \in EditedIssues, status \in StatusOptions}
              ELSE {})

Edit == \E edited \in Edits(session.action_plan) : EditActionPlan(edited)

SpecEditor == InitApp /\ [][Edit \/ ClearCompleted \/ Return]_vars

(***************************************************************************)
(* Properties                                                              *)
(***************************************************************************)
Queried == call.op = "query"

\* C1: RAGEngine.query never propagates an exception: whatever the engine
\* object, the question and the outcome of retrieval, enrichment and
\* generation, the call returns an (answer, sources) pair.
C1_QueryNeverRaises ==
    Queried => qr.returned /\ qr.raised = "none"

C1_Witness ==
    /\ Queried
    /\ qr.error = "generation"
    /\ qr.invoked = <<"retriever.invoke", "llm.invoke">>
    /\ qr.returned

\* the constructor found no index it can query: the directory cannot be
\* loaded or holds no chunk
NoIndexOnDisk == disk_store.state = "corrupt" \/ disk_store.chunks = <<>>

\* C2: constructing RAGEngine over a missing, empty or unloadable index
\* completes without raising, and every later query on that engine returns
\* the not-initialized message with no sources.
C2_ConstructibleWithoutIndex ==
    /\ (call.op = "RAGEngine" /\ GEMINI_API_KEY # "" /\ NoIndexOnDisk)
          => call.raised = "none" /\ engine # Unbound
    /\ (Queried /\ NoIndexOnDisk)
          => qr.answer = NOT_INITIALIZED /\ qr.sources = <<>>

\* C3: when self.vector_store is None, query returns the fixed
\* not-initialized message with an empty list, for every question, and does
\* not raise.
C3_NotInitializedResult ==
    (Queried /\ engine.vector_store = None)
        => /\ qr.returned
           /\ qr.raised = "none"
           /\ qr.answer = NOT_INITIALIZED
           /\ qr.sources = <<>>

C3_Witness ==
    /\ Queried
    /\ engine.vector_store = None
    /\ qr.question = ZebraQuestion
    /\ qr.answer = NOT_INITIALIZED

\* C4: with an index loaded, a step of query that raises yields an answer
\* starting with the error marker and an empty list of sources, never the
\* chunks retrieved before the failure, and the exception is not raised.
C4_ErrorResult ==
    (Queried /\ qr.error # "none")
        => /\ qr.returned
           /\ qr.raised = "none"
           /\ StartsWith(qr.answer, ERROR_MARKER)
           /\ qr.sources = <<>>

C4_Witness ==
    /\ Queried
    /\ qr.error = "generation"
    /\ qr.docs # <<>>
    /\ qr.sources = <<>>
    /\ StartsWith(qr.answer, ERROR_MARKER)

\* C5: an empty question is rejected before any remote call (retrieval or
\* generation) is attempted.
C5_EmptyQuestionRejected ==
    (Queried /\ qr.question = EmptyQuestion) => qr.invoked = <<>>

\* positions of the newlines of a text
Newlines(text) == {i \in 1..Len(text) : text[i] = "\n"}
FirstNewline(text) == CHOOSE i \in Newlines(text) : \A j \in Newlines(text) : i <= j
SecondNewline(text) ==
    LET later == {i \in Newlines(text) : i > FirstNewline(text)}
    IN  IF later = {} THEN Len(text) + 1
        ELSE CHOOSE i \in later : \A j \in later : i <= j

\* the output begins with the refusal phrase and its second line begins
\* with "However,"
RefusalThenHowever(text) ==
    /\ StartsWith(text, REFUSAL)
    /\ Newlines(text) # {}
    /\ FirstNewline(text) < Len(text)
    /\ text[FirstNewline(text) + 1] = HOWEVER

AfterSecondLine(text) == DropFirst(text, SecondNewline(text))

\* C6: when the generation output begins with the refusal phrase and its
\* next line begins with "However,", query returns the text after those two
\* lines (trimmed of surrounding whitespace): both lines are removed.
C6_RefusalStripped ==
    (Queried /\ qr.error = "none" /\ RefusalThenHowever(qr.content))
        => qr.answer = Strip(AfterSecondLine(qr.content))

C6_Witness ==
    /\ Queried
    /\ qr.error = "none"
    /\ RefusalThenHowever(qr.content)
    /\ qr.answer = <<"IRC:67">>
    /\ Len(AfterSecondLine(qr.content)) > 1

\* C7: with GEMINI_API_KEY unset or empty, constructing RAGEngine or
\* MultimodalHandler or running the index build ends at once with an error
\* (ValueError, or the printed ERROR line of the build) before any client,
\* index or topic model is created, loaded or called, and no component
\* object comes to exist.
C7_FailFastWithoutKey ==
    (env_key \in {Unset, ""})
        => /\ engine = Unbound
           /\ handler = Unbound
           /\ call.op \in {"RAGEngine", "MultimodalHandler", "data_processor"}
                 => /\ call.touched = {}
                    /\ \/ call.raised = "ValueError"
                       \/ call.printed =
                            "ERROR: GEMINI_API_KEY environment variable is not set."

C7_Witness ==
    /\ env_key = Unset
    /\ call.op = "RAGEngine"
    /\ call.raised = "ValueError"
    /\ call.touched = {}

\* the query got as far as building the context
ContextBuilt == Queried /\ qr.prompt # <<>>

\* C8: with no topic model loaded, _format_docs_with_topics returns what
\* _format_docs returns: the chunk texts, unmodified, joined by blank lines.
C8_PassThroughWithoutTopics ==
    (ContextBuilt /\ engine.lda_model = None) => qr.context = _format_docs(qr.docs)

C8_Witness ==
    /\ ContextBuilt
    /\ engine.lda_model = None
    /\ Len(qr.docs) >= 2
    /\ qr.context = _format_docs(qr.docs)

\* the tokens of the chunk texts of the model, evaluated once
TokensOfChunk == [content \in ChunkTexts |-> preprocess_text(content)]

\* occurrences of vocabulary word number id in the first TOKEN_LIMIT tokens
CountInPrefix(tokens, id) ==
    Cardinality({k \in 1..Len(tokens) : k <= TOKEN_LIMIT /\ tokens[k] = Vocabulary[id + 1]})

CountInBow(bow, id) ==
    IF \E e \in 1..Len(bow) : bow[e][1] = id
    THEN bow[CHOOSE e \in 1..Len(bow) : bow[e][1] = id][2]
    ELSE 0

\* the topic of highest posterior probability, the lowest among equals
Dominant(posterior) ==
    CHOOSE t \in Topics :
        /\ \A u \in Topics : posterior[u] <= posterior[t]
        /\ \A u \in Topics : u < t => posterior[u] < posterior[t]

FirstWords(words, n) == [k \in 1..(IF Len(words) < n THEN Len(words) ELSE n) |-> words[k]]

ExpectedLabel(topic) ==
    <<"[Topic Summary: ", "Topic ", Decimal(topic + 1), ": ">>
        \o Join(FirstWords(TrainedLda.topics[topic + 1], TOPN), <<", ">>)
        \o <<"]", "\n">>

\* C9: with a topic model loaded, each retrieved chunk is labelled with the
\* topic of highest posterior probability for its first (at most 50)
\* preprocessed tokens, the lowest topic index among equal maxima, and its
\* text is prefixed with the 1-based topic number and the topic's top 5 words.
C9_DominantTopicLabel ==
    (ContextBuilt /\ engine.lda_model # None)
        => /\ Len(qr.bows) = Len(qr.docs)
           /\ Len(qr.posteriors) = Len(qr.docs)
           /\ \A i \in 1..Len(qr.docs) :
                  \A id \in 0..(Len(Vocabulary) - 1) :
                      CountInBow(qr.bows[i], id)
                          = CountInPrefix(TokensOfChunk[qr.docs[i]], id)
           /\ qr.context =
                  Join([i \in 1..Len(qr.docs) |->
                           ExpectedLabel(Dominant(qr.posteriors[i])) \o qr.docs[i]],
                       BlankLine)

C9_Witness ==
    /\ ContextBuilt
    /\ engine.lda_model # None
    /\ \E i \in 1..Len(qr.docs) :
           /\ qr.docs[i] = LongText
           /\ qr.posteriors[i][0] = 0
           /\ qr.posteriors[i][1] = qr.posteriors[i][2]
    /\ \E i \in 1..Len(qr.docs) : qr.posteriors[i][0] = ProbScale

\* a text with its topic label, if it starts with one, removed
WithoutLabel(text) ==
    IF StartsWith(text, "[Topic Summary: ")
    THEN DropFirst(text, (CHOOSE i \in 1..Len(text) : text[i] = "]"
                              /\ \A j \in 1..(i - 1) : text[j] # "]") + 1)
    ELSE text

HasPrefix(text, prefix) ==
    Len(prefix) <= Len(text) /\ SubSeq(text, 1, Len(prefix)) = prefix

\* context is one segment per chunk of docs, in order, a blank line between
RECURSIVE SegmentsMatch(_, _)
SegmentsMatch(context, docs) ==
    IF docs = <<>> THEN context = <<>>
    ELSE LET body == WithoutLabel(context)
             rest == DropFirst(body, Len(Head(docs)))
         IN  /\ HasPrefix(body, Head(docs))
             /\ IF Len(docs) = 1 THEN rest = <<>>
                ELSE /\ HasPrefix(rest, BlankLine)
                     /\ SegmentsMatch(DropFirst(rest, Len(BlankLine)), Tail(docs))

\* C10: the context placed in the prompt holds exactly one segment per
\* retrieved chunk, in retrieval order, each the chunk's text with or
\* without its topic label, consecutive segments separated by a blank line.
C10_OneSegmentPerChunk ==
    ContextBuilt
        => /\ SegmentsMatch(qr.context, qr.docs)
           /\ HasPrefix(DropFirst(qr.prompt, 1), qr.context)

C10_Witness ==
    /\ ContextBuilt
    /\ Len(qr.docs) = RETRIEVER_K
    /\ qr.docs[1] = qr.docs[3]
    /\ qr.docs[1] # qr.docs[2]
    /\ engine.lda_model # None

\* the positions of the stored chunks in best-first order: higher score
\* first, earlier-stored first among equal scores
Before(sim, i, j) == sim[i] > sim[j] \/ (sim[i] = sim[j] /\ i < j)
RankOf(sim, i) == Cardinality({j \in DOMAIN sim : Before(sim, j, i)}) + 1
Min(a, b) == IF a <= b THEN a ELSE b

BuildFinished ==
    call.op = "data_processor" /\ call.printed = "Processor script finished."

\* C12: building the index twice from the same chunks is idempotent: when a
\* build that finishes was handed exactly the chunks the index already held
\* (the index as one earlier build from them left it), the index afterwards
\* holds those chunks once, the same entries as before the rebuild.
C12_RebuildIdempotent ==
    (BuildFinished /\ call.job.chunks # <<>> /\ call.job.before = call.job.chunks)
        => disk_store.chunks = call.job.chunks

C14_EmptyCorpusFails ==
    /\ (call.op = "train_lda_model" /\ call.job.documents = <<>>) =>
           /\ call.raised = "ValueError"
           /\ call.job.error = EMPTY_VOCABULARY
           /\ call.touched \cap {"LdaModel", "lda_model.pkl"} = {}
    /\ (call.op = "data_processor" /\ "listdir" \in call.touched
            /\ call.job.documents = <<>>) =>
           /\ call.printed = "No documents found in data/raw/."
           /\ call.touched \cap {"LdaModel", "lda_model.pkl"} = {}

C14_Witness ==
    /\ call.op = "train_lda_model"
    /\ call.job.documents = <<>>
    /\ call.raised = "ValueError"

\* C15: the embedding model identifier the index build passes to the
\* embedding service equals the identifier the engine passes at query time:
\* whenever an engine exists over an index that holds chunks, the engine's
\* identifier is the one the stored vectors were computed with.
C15_SameEmbeddingModel ==
    (engine # Unbound /\ disk_store.chunks # <<>>) =>
        engine.embeddings = disk_store.model

\* an engine answering from chunks a build of this run has stored
C15_Witness ==
    /\ Queried /\ qr.sources # <<>>
    /\ Len(disk_store.chunks) > 1
    /\ engine.embeddings = <<"models/", "text-embedding-004">>

\* the number of page records of the loadable .pdf files among the first n files
RECURSIVE PagesBefore(_, _)
PagesBefore(files, n) ==
    IF n = 0 THEN 0
    ELSE PagesBefore(files, n - 1)
         + (IF files[n].pdf /\ ~files[n].unreadable THEN Len(files[n].pages) ELSE 0)

\* C16: load_documents returns whatever happens to single files: a .pdf
\* file whose loading raises contributes no record, and every other .pdf file
\* contributes all of its page records, in order, behind those of the files
\* listed before it; nothing else is in the result.
C16_LoadSkipsFailingFiles ==
    call.op = "load_documents" =>
        LET files == call.job.files
            documents == call.job.documents
        IN  /\ call.raised = "none"
            /\ Len(documents) = PagesBefore(files, Len(files))
            /\ \A i \in 1..Len(files) :
                   (files[i].pdf /\ ~files[i].unreadable) =>
                       \A p \in 1..Len(files[i].pages) :
                           documents[PagesBefore(files, i - 1) + p] = files[i].pages[p]

\* a file that fails to load listed before a file of two pages
C16_Witness ==
    /\ call.op = "load_documents"
    /\ Len(call.job.files) >= 2
    /\ call.job.files[1] = BadPdf
    /\ call.job.files[2] = PdfFile(<<NoiseText, BlankPage>>)
    /\ Len(call.job.documents) >= 2

\* text[-n:] and text[:n] in characters: the symbols at the end (start) of
\* the text that make up exactly n characters, if there are such
EndsWithChars(text, piece, n) ==
    /\ TextLen(piece) = n
    /\ Len(piece) <= Len(text)
    /\ SubSeq(text, Len(text) - Len(piece) + 1, Len(text)) = piece
StartsWithChars(text, piece, n) ==
    /\ TextLen(piece) = n
    /\ Len(piece) <= Len(text)
    /\ SubSeq(text, 1, Len(piece)) = piece

Overlap(left, right) ==
    \E k \in 0..Len(left) :
        LET piece == SubSeq(left, Len(left) - k + 1, Len(left))
        IN  EndsWithChars(left, piece, CHUNK_OVERLAP)
                /\ StartsWithChars(right, piece, CHUNK_OVERLAP)

\* the chunks joined with the first CHUNK_OVERLAP characters of every chunk
\* but the first left out; Undivided where a chunk has no such start
RECURSIVE WithoutOverlaps(_, _)
WithoutOverlaps(chunks, i) ==
    IF i > Len(chunks) THEN <<>>
    ELSE IF i = 1 THEN chunks[1] \o WithoutOverlaps(chunks, 2)
    ELSE LET starts == {k \in 0..Len(chunks[i]) :
                           TextLen(SubSeq(chunks[i], 1, k)) = CHUNK_OVERLAP}
         IN  IF starts = {} THEN <<"<no overlap>">>
             ELSE LET k == CHOOSE m \in starts : \A n \in starts : m <= n
                  IN  SubSeq(chunks[i], k + 1, Len(chunks[i]))
                          \o WithoutOverlaps(chunks, i + 1)

\* C17: split_documents cuts a document into chunks of which all but the
\* last have exactly 1000 characters, each chunk starts with the last 200
\* characters of the chunk before it, and the chunks joined without these
\* overlaps give back the document's text.
C17_ExactChunksAndOverlap ==
    (call.op = "split_documents" /\ Len(call.job.documents) = 1) =>
        LET text == call.job.documents[1]
            chunks == call.job.chunks
        IN  /\ \A i \in 1..(Len(chunks) - 1) : TextLen(chunks[i]) = CHUNK_SIZE
            /\ \A i \in 1..(Len(chunks) - 1) : Overlap(chunks[i], chunks[i + 1])
            /\ WithoutOverlaps(chunks, 1) = text

TextCall == call.op \in {"preprocess_text", "setup_nltk"}
Needed == IF call.op = "preprocess_text" THEN PreprocessResources ELSE SetupResources

\* C18: the language-resource setup of both entry points is idempotent: a
\* call that finds a needed resource absent downloads exactly the absent
\* resources and, the download service working, returns normally with all
\* of them installed; a call that finds them all present downloads nothing
\* and returns normally.
C18_SetupIdempotent ==
    TextCall =>
        /\ call.job.downloads = call.job.absent
        /\ call.job.download_ok =>
               (call.raised = "none" /\ Needed \subseteq nltk_data)

\* the words of a text: the pieces between whitespace characters
WordsOf(text) ==
    LET spaced == [i \in 1..Len(text) |-> IF text[i] \in Whitespace THEN " " ELSE text[i]]
    IN  SelectSeq(SplitOn(spaced, " "), NotEmpty)

IsUppercase(c) == Lower(<<c>>) # <<c>>

\* C19: preprocess_text returns the words of the lowercased text with its
\* punctuation characters deleted, in their order in the text, leaving out
\* the stop words and the words of one character; no returned token holds
\* an uppercase letter, a punctuation character or whitespace.
C19_PreprocessTokens ==
    (call.op = "preprocess_text" /\ call.raised = "none") =>
        LET text == call.job.documents[1]
            tokens == call.job.tokens
            NotPunctuation(c) == c \notin Punctuation
            Wanted(word) == word \notin StopWords /\ WordLen(word) > 1
        IN  /\ tokens = SelectSeq(WordsOf(SelectSeq(Lower(text), NotPunctuation)), Wanted)
            /\ \A i \in 1..Len(tokens) : \A j \in 1..Len(tokens[i]) :
                   /\ ~IsUppercase(tokens[i][j])
                   /\ tokens[i][j] \notin Punctuation \cup Whitespace

\* a capitalised stop word, a one-letter word and a capitalised word
C19_Witness ==
    /\ call.op = "preprocess_text" /\ call.raised = "none"
    /\ \/ call.job.documents[1] = <<"The", " ", "Zebra">>
       \/ call.job.documents[1] = <<"x", " ", "Zebra">>
    /\ call.job.tokens = << <<"zebra">> >>

\* the documents whose preprocessed text holds the token
DocumentsWith(documents, token) ==
    {i \in 1..Len(documents) :
        \E j \in 1..Len(preprocess_text(documents[i])) :
            preprocess_text(documents[i])[j] = token}

Artifacts == {"lda_model.pkl", "lda_dictionary.pkl", "count_vectorizer.pkl", VECTOR_INDEX}

\* how many times the last batch job wrote the artifact
TimesWritten(a) ==
    Cardinality({i \in 1..Len(call.job.writes) : call.job.writes[i] = a})

BatchJob == call.op = "data_processor"

\* the job got as far as train_lda_model (line 180)
TrainingReached == BatchJob /\ "LdaModel" \in call.touched

\* the job got as far as save_lda_model (line 183), as build_vector_store (line 189)
SaveReached == BatchJob /\ "lda_model.pkl" \in call.touched
BuildReached == BatchJob /\ "Chroma" \in call.touched

AnalyzedImage == call.op = "analyze_image"

\* C23: analyze_image never raises: when opening, converting or resizing the
\* image or the generation call fails it returns None, and otherwise it
\* returns the text of the model's response.
C23_AnalyzeImageNeverRaises ==
    AnalyzedImage =>
        /\ call.raised = "none"
        /\ call.job.error # "none" => call.job.result = None
        /\ call.job.error = "none" =>
               /\ call.job.response # None
               /\ call.job.result = Str(call.job.response.text)

\* the generation call failed on an image that was converted and resized
C23_Witness ==
    /\ AnalyzedImage
    /\ call.job.error = "generate_content"
    /\ {"convert", "thumbnail"} \subseteq call.touched
    /\ call.job.result = None

ClearedCompleted == call.op = "clear_completed_tasks"

\* the strictly increasing maps from the positions of after to those of before
Embeddings(after, before) ==
    {f \in [1..Len(after) -> 1..Len(before)] :
        \A a \in 1..Len(after), b \in 1..Len(after) : a < b => f[a] < f[b]}

\* C24: clear_completed_tasks removes from the action plan exactly the tasks
\* whose Status is 'Completed': every other task is kept as it was and in its
\* original relative order, and no task with Status 'Completed' remains.
C24_ClearsExactlyCompleted ==
    ClearedCompleted =>
        LET before == call.job.before
            after == session.action_plan
        IN  /\ \A a \in 1..Len(after) : after[a].Status # "Completed"
            /\ \E f \in Embeddings(after, before) :
                  /\ \A a \in 1..Len(after) : after[a] = before[f[a]]
                  /\ \A i \in 1..Len(before) :
                        (\E a \in 1..Len(after) : f[a] = i)
                            <=> before[i].Status # "Completed"

\* a completed task between two others was cleared
C24_Witness ==
    /\ ClearedCompleted
    /\ Len(call.job.before) = 3
    /\ call.job.before[2].Status = "Completed"
    /\ call.job.before[1].Status = "Deferred"
    /\ Len(session.action_plan) = 2
    /\ call.printed = "completed tasks cleared from the plan."

\* C25: after any sequence of get_rag_answer, analyze_road_image and
\* clear_completed_tasks calls from the initial session state no two tasks of
\* the action plan have the same Issue.
C25_NoDuplicateIssues ==
    \A i \in 1..Len(session.action_plan), j \in 1..Len(session.action_plan) :
        i # j => session.action_plan[i].Issue # session.action_plan[j].Issue

\* a handler found its Issue in a plan it had grown earlier and appended nothing
C25_Witness ==
    /\ call.op \in {"get_rag_answer", "analyze_road_image"}
    /\ "error" \notin DOMAIN call.job.result
    /\ Len(call.job.before) > Len(InitialActionPlan)
    /\ session.action_plan = call.job.before

AnsweredRag == call.op = "get_rag_answer"

\* C26: get_rag_answer called with an empty query returns the error result
\* with the message 'Please enter a question to query the Knowledge Base.'
\* and leaves the action plan unchanged.
C26_EmptyQueryRejected ==
    (AnsweredRag /\ call.job.args.text = <<>>) =>
        /\ DOMAIN call.job.result = {"error", "message"}
        /\ call.job.result.error = TRUE
        /\ call.job.result.message = "Please enter a question to query the Knowledge Base."
        /\ session.action_plan = call.job.before

\* the empty query was rejected in fog, with a plan the handlers had grown
C26_Witness ==
    /\ AnsweredRag
    /\ call.job.args.text = <<>>
    /\ "error" \in DOMAIN call.job.result
    /\ \E i \in 1..Len(session.current_weather) : session.current_weather[i] = "Mist"
    /\ Len(session.action_plan) > Len(InitialActionPlan)

\* the weather string names fog, mist or haze, in any case
WeatherIsFoggy ==
    \E i \in 1..Len(session.current_weather) :
        Lower(session.current_weather)[i] \in {"fog", "mist", "haze"}

HasIssue(issue) ==
    \E i \in 1..Len(session.action_plan) : session.action_plan[i].Issue = issue

\* C27: in get_rag_answer the weather takes precedence over the query: when
\* the current weather names fog, mist or haze every non-empty query yields
\* severity Critical and the fog-visibility issue, and the keywords of the
\* query decide only when the weather names none of them.
C27_WeatherBeforeKeywords ==
    (AnsweredRag /\ call.job.args.text # <<>>) =>
        LET query == Lower(call.job.args.text)
            has(kws) == \E i \in 1..Len(query) : query[i] \in kws
            severity == call.job.result.severity
        IN  IF WeatherIsFoggy
            THEN /\ severity = <<"**", "Critical", "**">>
                 /\ HasIssue(<<"High-Risk: Fog/Mist Visibility Issues (Weather: ">>
                                \o session.current_weather \o <<")">>)
            ELSE /\ severity # <<"**", "Critical", "**">>
                 /\ has({"zebra", "pedestrian", "crossing"})
                       => /\ severity = <<"**", "High", "**">>
                          /\ HasIssue(<<"Un-marked/Faded Pedestrian Crossing (IRC:35/IRC:67 violation)">>)
                 /\ (has({"speed", "limit", "enforce"})
                        /\ ~has({"zebra", "pedestrian", "crossing"}))
                       => severity = <<"**", "Medium/High", "**">>

\* a question about zebra crossings asked in mist
C27_Witness ==
    /\ AnsweredRag
    /\ call.job.args.text = <<"Zebra", " ", "crossing">>
    /\ session.current_weather = <<"Mist", " (", "mist", ")">>
    /\ call.job.result.severity = <<"**", "Critical", "**">>
    /\ ~HasIssue(<<"Un-marked/Faded Pedestrian Crossing (IRC:35/IRC:67 violation)">>)

\* the model was asked and answered
Generated ==
    Queried /\ qr.error = "none" /\ qr.invoked = <<"retriever.invoke", "llm.invoke">>

\* C28 as stated: query changes the generation output only in the refusal
\* case: an output that does not begin with the refusal phrase, or whose
\* second line does not begin with "However,", is returned with only its
\* leading and trailing whitespace removed.
C28_OnlyRefusalChanged ==
    (Generated /\ ~RefusalThenHowever(qr.content)) => qr.answer = Strip(qr.content)

\* the second line of a text that has one
SecondLine(text) == SubSeq(text, FirstNewline(text) + 1, SecondNewline(text) - 1)

\* the refusal case as the code tests it: on the output without its leading
\* and trailing whitespace, and on its second line without the whitespace
\* before and after it
StrippedRefusalThenHowever(text) ==
    LET answer == Strip(text)
    IN  /\ StartsWith(answer, REFUSAL)
        /\ Newlines(answer) # {}
        /\ StartsWith(Strip(SecondLine(answer)), HOWEVER)

\* C28, amended: an output that, once its leading and trailing whitespace are
\* removed, does not begin with the refusal phrase, or whose second line does
\* not then begin with "However," after any whitespace, is returned with only
\* its leading and trailing whitespace removed.
C28_OnlyStrippedRefusalChanged ==
    (Generated /\ ~StrippedRefusalThenHowever(qr.content))
        => qr.answer = Strip(qr.content)

\* a blank line sits between the refusal line and "However,"
C28_Witness ==
    /\ Generated
    /\ qr.content = <<" ", REFUSAL, "\n", "\n", HOWEVER, "\n">>
    /\ qr.answer = <<REFUSAL, "\n", "\n", HOWEVER>>

\* the engine of the call holds a loaded index (line 168 lets the call through)
IndexLoaded == Truthy(engine.vector_store, disk_store.chunks, chroma_len)

\* how many times the last query invoked the service
Invocations(service) ==
    Cardinality({i \in 1..Len(qr.invoked) : qr.invoked[i] = service})

\* C29: within one query on a loaded index retrieval is invoked at most once
\* and before generation, generation is invoked at most once and never after
\* retrieval or topic enrichment raised, and on success the returned list is
\* the retrieved chunks in retrieval order.
C29_RetrievalThenGeneration ==
    (Queried /\ IndexLoaded) =>
        /\ Invocations("retriever.invoke") <= 1
        /\ Invocations("llm.invoke") <= 1
        /\ \A j \in 1..Len(qr.invoked) :
              qr.invoked[j] = "llm.invoke"
                  => \E i \in 1..(j - 1) : qr.invoked[i] = "retriever.invoke"
        /\ qr.error \in {"retrieval", "enrichment"} => Invocations("llm.invoke") = 0
        /\ qr.error = "none" =>
              /\ qr.sources = qr.docs
              /\ Len(qr.sources) = Min(RETRIEVER_K, Len(disk_store.chunks))
              /\ \A i \in 1..Len(qr.sources) :
                    \E c \in 1..Len(disk_store.chunks) :
                        /\ disk_store.chunks[c] = qr.sources[i]
                        /\ \A d \in 1..Len(disk_store.chunks) :
                              qr.scores[d] > qr.scores[c]
                                  => \E h \in 1..(i - 1) :
                                         qr.sources[h] = disk_store.chunks[d]

\* the enrichment of retrieved chunks raised and the model was not asked
C29_Witness ==
    /\ Queried
    /\ IndexLoaded
    /\ qr.error = "enrichment"
    /\ Len(qr.docs) = 2
    /\ qr.invoked = <<"retriever.invoke">>

\* C30: when no vector index is loaded (the store is None, or is empty and
\* tests false), query returns its not-initialized result without invoking
\* the retriever, the embedding service behind it or the generation model:
\* nothing is retrieved, scored, enriched or put into a prompt.
C30_NotInitializedInvokesNothing ==
    (Queried /\ ~IndexLoaded) =>
        /\ qr.invoked = <<>>
        /\ qr.scores = <<>> /\ qr.docs = <<>> /\ qr.bows = <<>>
        /\ qr.prompt = <<>> /\ qr.content = <<>>
        /\ qr.error = "none"
        /\ qr.answer = NOT_INITIALIZED

\* an engine that holds a retriever over an index that has no chunks
C30_Witness ==
    /\ Queried
    /\ engine.vector_store = ChromaStore
    /\ engine.retriever = Retriever
    /\ disk_store.chunks = <<>>
    /\ chroma_len
    /\ qr.invoked = <<>>
    /\ qr.answer = NOT_INITIALIZED

====
